---- MODULE Spec2Model ----
(***************************************************************************)
(* Model of the conscious-scan analysis pipeline: the text classifier, the *)
(* nutrition and ingredient extractors (services/analysisService.ts), the  *)
(* oracle call with its JSON repair pass (services/llmService.ts) and the  *)
(* orchestrator createProductFromScan with its heuristic fallback.         *)
(*                                                                         *)
(* Texts are strings; JavaScript's string and regular-expression           *)
(* operations are written out character by character.                      *)
(***************************************************************************)
EXTENDS Integers, Sequences, FiniteSets, TLC

\* ------------------------------------------------------------------------
\* JavaScript string primitives
\* ------------------------------------------------------------------------

CharAt(s, i) == SubSeq(s, i, i)

Chars(s) == {CharAt(s, i) : i \in 1..Len(s)}

LowerAlpha == "abcdefghijklmnopqrstuvwxyz"

UpperAlpha == "ABCDEFGHIJKLMNOPQRSTUVWXYZ"

LowerChars == Chars(LowerAlpha)

UpperChars == Chars(UpperAlpha)

\* \d
DigitChars == Chars("0123456789")

\* \s (the white space of the input alphabet)
SpaceChars == {" ", "\n", "\t", "\r"}

\* \w
WordChars == LowerChars \cup UpperChars \cup DigitChars \cup {"_"}

IsDigit(c) == c \in DigitChars

IsSpace(c) == c \in SpaceChars

IsWord(c) == c \in WordChars

LowerOf == [c \in UpperChars |-> CharAt(LowerAlpha, CHOOSE i \in 1..Len(UpperAlpha) : CharAt(UpperAlpha, i) = c)]

UpperOf == [c \in LowerChars |-> CharAt(UpperAlpha, CHOOSE i \in 1..Len(LowerAlpha) : CharAt(LowerAlpha, i) = c)]

lowerChar(c) == IF c \in UpperChars THEN LowerOf[c] ELSE c

upperChar(c) == IF c \in LowerChars THEN UpperOf[c] ELSE c

\* the concatenation F(lo) \o ... \o F(hi) of strings, by halving the range
RECURSIVE concatRange(_, _, _)
concatRange(F(_), lo, hi) ==
  IF lo > hi THEN ""
  ELSE IF lo = hi THEN F(lo)
  ELSE LET mid == (lo + hi) \div 2
       IN  concatRange(F, lo, mid) \o concatRange(F, mid + 1, hi)

Min(S) == CHOOSE x \in S : \A y \in S : x <= y

Max(S) == 0 - Min({0 - x : x \in S})

\* the smallest element of the set S of positions, and none when S is empty
minOr(S, none) == IF S = {} THEN none ELSE Min(S)

\* the smallest j in lo..hi with Q(j), and hi + 1 when there is none
first(Q(_), lo, hi) == minOr({j \in lo..hi : Q(j)}, hi + 1)

\* String.prototype.toLowerCase
toLowerCase(s) == concatRange(LAMBDA i : lowerChar(CharAt(s, i)), 1, Len(s))

\* String.prototype.toUpperCase on one character
toUpperCase(c) == upperChar(c)

\* s.substring(start), start counted from 0
substring(s, start) == SubSeq(s, start + 1, Len(s))

\* s.slice(start, end) on a string, indices counted from 0
sliceStr(s, start, end) == SubSeq(s, start + 1, end)

\* true when k occurs in s at the position i (counted from 1)
matchAt(s, k, i) == i >= 1 /\ i + Len(k) - 1 <= Len(s) /\ SubSeq(s, i, i + Len(k) - 1) = k

Occurrences(s, k) == {i \in 1..(Len(s) - Len(k) + 1) : SubSeq(s, i, i + Len(k) - 1) = k}

\* the position (counted from 1) of the first occurrence of k in s at or
\* after from, and Len(s) + 1 when there is none
firstOccurrence(s, k, from) == first(LAMBDA i : matchAt(s, k, i), from, Len(s))

\* String.prototype.includes
includes(s, k) == \E i \in 1..(Len(s) - Len(k) + 1) : SubSeq(s, i, i + Len(k) - 1) = k

\* String.prototype.indexOf: the position counted from 0, or -1
indexOf(s, k) == IF includes(s, k) THEN firstOccurrence(s, k, 1) - 1 ELSE -1

\* the number of characters from position i on that satisfy P: the run
\* ends at the first position j that is past the end or fails P
span(P(_), s, i) ==
  IF i < 1 \/ i > Len(s) THEN 0
  ELSE (CHOOSE j \in i..(Len(s) + 1) :
          /\ \A k \in i..(j - 1) : P(CharAt(s, k))
          /\ (j = Len(s) + 1 \/ ~P(CharAt(s, j)))) - i

\* the position after the run of characters satisfying P that starts at i
skip(P(_), s, i) == i + span(P, s, i)

\* \s*, \d* and \w* from position i on: the position after them
skipSpace(s, i) == skip(IsSpace, s, i)

skipDigits(s, i) == skip(IsDigit, s, i)

skipWord(s, i) == skip(IsWord, s, i)

\* k? at position i: the position after it
skipOptional(s, k, i) == IF matchAt(s, k, i) THEN i + Len(k) ELSE i

\* s.replace(/re$/, '') for a match of re that starts at j (none: j > Len(s))
cutAt(s, j) == IF j > Len(s) THEN s ELSE SubSeq(s, 1, j - 1)

\* String.prototype.trim: s from the first to the last of the positions
\* that hold no white space
trim(s) ==
  LET between(kept) == IF kept = {} THEN "" ELSE SubSeq(s, Min(kept), Max(kept))
  IN  between({j \in 1..Len(s) : ~IsSpace(CharAt(s, j))})

\* the elements of the set S of integers that lie in lo..hi, in ascending
\* order, by halving the range
RECURSIVE ascending(_, _, _)
ascending(S, lo, hi) ==
  IF lo > hi THEN << >>
  ELSE IF lo = hi THEN (IF lo \in S THEN << lo >> ELSE << >>)
  ELSE ascending(S, lo, (lo + hi) \div 2) \o ascending(S, (lo + hi) \div 2 + 1, hi)

\* s.split(sep) for a separator class seps: the pieces between separators
split(s, seps) ==
  LET \* cuts holds the separator positions in ascending order
      pieces(cuts) ==
        [k \in 1..(Len(cuts) + 1) |->
           SubSeq(s, (IF k = 1 THEN 0 ELSE cuts[k - 1]) + 1,
                     (IF k > Len(cuts) THEN Len(s) + 1 ELSE cuts[k]) - 1)]
  IN  pieces(ascending({i \in 1..Len(s) : CharAt(s, i) \in seps}, 1, Len(s)))

\* Array.prototype.join
join(parts, sep) ==
  concatRange(LAMBDA k : IF k = 1 THEN parts[k] ELSE sep \o parts[k], 1, Len(parts))

\* the sequence << F(lo), ..., F(hi) >>, by halving the range
RECURSIVE tabulate(_, _, _)
tabulate(F(_), lo, hi) ==
  IF lo > hi THEN << >>
  ELSE IF lo = hi THEN << F(lo) >>
  ELSE tabulate(F, lo, (lo + hi) \div 2) \o tabulate(F, (lo + hi) \div 2 + 1, hi)

\* the positions that the scan of a global replace visits: it starts at 1
\* and moves from i to jump[i]. jump is squared at each step, so that
\* reached holds the positions within 1, 2, 4, ... moves of the scan.
RECURSIVE visited(_, _)
visited(jump, reached) ==
  IF \A i \in reached : jump[i] \in reached THEN reached
  ELSE visited(tabulate(LAMBDA i : jump[jump[i]], 1, Len(jump)),
               reached \cup {jump[i] : i \in reached})

\* s.replace(/re/g, rep): M(s, i) is the length of the match of re that
\* starts at i, 0 when there is none; matches are taken leftmost and do not
\* overlap: the scan moves from i to the end of the match at i, or to i + 1.
replaceAll(M(_, _), s, rep) ==
  LET move(i, m) == IF i > Len(s) THEN i ELSE IF m > 0 THEN i + m ELSE i + 1
      replaced(scan) ==
        concatRange(LAMBDA i : IF i \notin scan THEN ""
                               ELSE IF M(s, i) > 0 THEN rep
                               ELSE CharAt(s, i),
                    1, Len(s))
  IN  replaced(visited(tabulate(LAMBDA i : move(i, M(s, i)), 1, Len(s) + 1), {1}))

\* Array.prototype.map(l => l.trim())
trimAll(lines) == [i \in 1..Len(lines) |-> trim(lines[i])]

\* true when position i (counted from 1) is a \b word boundary of s
wordBoundary(s, i) ==
  LET before == i > 1 /\ i - 1 <= Len(s) /\ IsWord(CharAt(s, i - 1))
      after == i >= 1 /\ i <= Len(s) /\ IsWord(CharAt(s, i))
  IN  before # after

\* the length of the first alternative of alts that occurs at i, 0 if none
altAt(s, alts, i) ==
  LET firstOf(hits) == IF hits = {} THEN 0 ELSE Len(alts[Min(hits)])
  IN  firstOf({j \in 1..Len(alts) : matchAt(s, alts[j], i)})

\* ------------------------------------------------------------------------
\* TextClassifier: isNutritionTable
\* ------------------------------------------------------------------------

nutritionKeywords ==
  << "nutrition facts", "nutritional information", "serving size", "calories",
     "total fat", "saturated fat", "cholesterol", "sodium", "carbohydrate",
     "protein", "vitamin", "daily value" >>

NutritionThreshold == 3

\* the keywords counted in the text as it is written
keywordCountCased(text) ==
  Len(SelectSeq(nutritionKeywords, LAMBDA keyword : includes(text, keyword)))

keywordCount(text) ==
  LET lower == toLowerCase(text)
  IN  Len(SelectSeq(nutritionKeywords, LAMBDA keyword : includes(lower, keyword)))

isNutritionTable(text) == keywordCount(text) >= NutritionThreshold

\* ------------------------------------------------------------------------
\* NutritionExtractor: extractNutritionInfo, formatNutritionForAnalysis
\* ------------------------------------------------------------------------

\* an optional value: <<>> is undefined, <<v>> is the value v
None == <<>>

Some(v) == <<v>>

IsSome(o) == Len(o) = 1

unitAlternatives == << "g", "mg", "mcg", "iu" >>

\* \d+\.?\d*\s*(?:g|mg|mcg|iu) at position i of the lower-cased line ls:
\* the length of the match, 0 when there is none
amountAt(ls, i) ==
  LET unit(p, u) == IF u = 0 THEN 0 ELSE p + u - i
      unitAt(p) == unit(p, altAt(ls, unitAlternatives, p))
  IN  IF span(IsDigit, ls, i) = 0 THEN 0
      ELSE unitAt(skipSpace(ls, skipDigits(ls, skipOptional(ls, ".", skipDigits(ls, i)))))

\* the ends e of a group ([\w\s]+?) = line[1..e] that \s+ and an amount follow
nameEnds(line, ls) ==
  {e \in 1..Len(line) :
     /\ span(LAMBDA c : IsWord(c) \/ IsSpace(c), line, 1) >= e
     /\ span(IsSpace, line, e + 1) >= 1
     /\ amountAt(ls, e + 1 + span(IsSpace, line, e + 1)) > 0}

\* the position after the amount that follows the name line[1..e]
afterAmount(line, ls, e) ==
  LET amountEnd(a) == a + amountAt(ls, a)
  IN  amountEnd(skipSpace(line, e + 1))

amountOf(line, ls, e) ==
  LET amount(a) == SubSeq(line, a, a + amountAt(ls, a) - 1)
  IN  amount(skipSpace(line, e + 1))

NoMatch == [matched |-> FALSE, name |-> "", amount |-> "", pct |-> None]

\* (?:\((\d+)%?\s*(?:dv|daily value)?\))? at position p: the digits of
\* group 3, or None when the optional group does not match
parenPercentAt(line, ls, p) ==
  LET closes(q) == matchAt(ls, ")", q + altAt(ls, << "dv", "daily value" >>, q)) \/ matchAt(ls, ")", q)
      \* d is the position after the digits
      percent(d) ==
        IF matchAt(ls, "(", p) /\ d > p + 1 /\ closes(skipSpace(ls, skipOptional(ls, "%", d)))
        THEN Some(SubSeq(line, p + 1, d - 1))
        ELSE None
  IN  percent(skipDigits(ls, p + 1))

\* /^([\w\s]+?)\s+(\d+\.?\d*\s*(?:g|mg|mcg|iu))\s*(?:\((\d+)%?\s*(?:dv|daily value)?\))?/i
nutrientPattern1(line) ==
  LET matched(ls, e) ==
        [matched |-> TRUE, name |-> SubSeq(line, 1, e), amount |-> amountOf(line, ls, e),
         pct |-> parenPercentAt(line, ls, skipSpace(line, afterAmount(line, ls, e)))]
      among(ls, ends) == IF ends = {} THEN NoMatch ELSE matched(ls, Min(ends))
      lowered(ls) == among(ls, nameEnds(line, ls))
  IN  lowered(toLowerCase(line))

\* /^([\w\s]+?)\s+(\d+\.?\d*\s*(?:g|mg|mcg|iu))\s+(\d+)%?/i
nutrientPattern2(line) ==
  LET percentFollows(q) == span(IsSpace, line, q) >= 1 /\ span(IsDigit, line, skipSpace(line, q)) >= 1
      digitsFrom(p) == SubSeq(line, p, skipDigits(line, p) - 1)
      matched(ls, e) ==
        [matched |-> TRUE, name |-> SubSeq(line, 1, e), amount |-> amountOf(line, ls, e),
         pct |-> Some(digitsFrom(skipSpace(line, afterAmount(line, ls, e))))]
      among(ls, ends) == IF ends = {} THEN NoMatch ELSE matched(ls, Min(ends))
      lowered(ls) == among(ls, {e \in nameEnds(line, ls) : percentFollows(afterAmount(line, ls, e))})
  IN  lowered(toLowerCase(line))

\* /^([\w\s]+?)\s+(\d+\.?\d*\s*(?:g|mg|mcg|iu))$/i
nutrientPattern3(line) ==
  LET matched(ls, e) ==
        [matched |-> TRUE, name |-> SubSeq(line, 1, e), amount |-> amountOf(line, ls, e), pct |-> None]
      among(ls, ends) == IF ends = {} THEN NoMatch ELSE matched(ls, Min(ends))
      lowered(ls) == among(ls, {e \in nameEnds(line, ls) : afterAmount(line, ls, e) = Len(line) + 1})
  IN  lowered(toLowerCase(line))

nutrientPatterns(line) ==
  << nutrientPattern1(line), nutrientPattern2(line), nutrientPattern3(line) >>

\* the loop over the patterns: the first match whose name is no header is
\* pushed; a header match moves on to the next pattern
RECURSIVE nutrientsOfLine(_, _)
nutrientsOfLine(matches, k) ==
  LET pushed(m, name) ==
        IF includes(toLowerCase(name), "amount per") \/ includes(toLowerCase(name), "% daily value")
        THEN nutrientsOfLine(matches, k + 1)
        ELSE << [name |-> name, amount |-> trim(m.amount),
                 dailyValue |-> IF IsSome(m.pct) THEN Some(m.pct[1] \o "%") ELSE None] >>
  IN  IF k > Len(matches) THEN << >>
      ELSE IF ~matches[k].matched THEN nutrientsOfLine(matches, k + 1)
      ELSE pushed(matches[k], trim(matches[k].name))

\* /serving size:?/gi at position i
servingSizeAt(s, i) ==
  IF matchAt(toLowerCase(s), "serving size", i)
  THEN (IF matchAt(s, ":", i + 12) THEN 13 ELSE 12)
  ELSE 0

\* line.match(/calories\s*:?\s*(\d+)/i): group 1 of the leftmost match
calorieMatch(line) ==
  LET digitsAt(ls, i) == skipSpace(ls, skipOptional(ls, ":", skipSpace(ls, i + 8)))
      digitsFrom(p) == Some(SubSeq(line, p, skipDigits(line, p) - 1))
      among(ls, hits) == IF hits = {} THEN None ELSE digitsFrom(digitsAt(ls, Min(hits)))
      lowered(ls) ==
        among(ls, {i \in Occurrences(ls, "calories") : span(IsDigit, ls, digitsAt(ls, i)) >= 1})
  IN  lowered(toLowerCase(line))

RECURSIVE nutritionLoop(_, _, _)
nutritionLoop(lines, k, acc) ==
  LET withCalories(caloriesMatch) ==
        IF IsSome(caloriesMatch) THEN [acc EXCEPT !.calories = caloriesMatch] ELSE acc
      step(line, lower) ==
        IF includes(lower, "serving size") \/ includes(lower, "serving:")
        THEN [acc EXCEPT !.servingSize = Some(trim(replaceAll(servingSizeAt, line, "")))]
        ELSE IF includes(lower, "calories") /\ ~includes(lower, "from")
        THEN withCalories(calorieMatch(line))
        ELSE [acc EXCEPT !.nutrients = @ \o nutrientsOfLine(nutrientPatterns(line), 1)]
  IN  IF k > Len(lines) THEN acc
      ELSE nutritionLoop(lines, k + 1, step(lines[k], toLowerCase(lines[k])))

extractNutritionInfo(text) ==
  LET lines == SelectSeq(trimAll(split(text, {"\n"})), LAMBDA l : Len(l) > 0)
  IN  nutritionLoop(lines, 1, [servingSize |-> None, calories |-> None, nutrients |-> << >>])

RECURSIVE nutrientLines(_, _)
nutrientLines(nutrients, k) ==
  IF k > Len(nutrients) THEN ""
  ELSE nutrients[k].name \o ": " \o nutrients[k].amount
       \o (IF IsSome(nutrients[k].dailyValue) /\ nutrients[k].dailyValue[1] # ""
           THEN " (" \o nutrients[k].dailyValue[1] \o " of daily value)" ELSE "")
       \o "\n" \o nutrientLines(nutrients, k + 1)

NutritionNote ==
  "\n[Note: This is a nutrition facts table. Analyze the nutritional content for health implications, "
  \o "high sodium/sugar/fat concerns, and provide health advice based on these values. "
  \o "Treat each nutrient as an analyzable component.]"

formatNutritionForAnalysis(nutritionInfo) ==
  "Product Nutrition Analysis Request:\n\n"
  \o (IF IsSome(nutritionInfo.servingSize) /\ nutritionInfo.servingSize[1] # ""
      THEN "Serving Size: " \o nutritionInfo.servingSize[1] \o "\n" ELSE "")
  \o (IF IsSome(nutritionInfo.calories) /\ nutritionInfo.calories[1] # ""
      THEN "Calories: " \o nutritionInfo.calories[1] \o " per serving\n" ELSE "")
  \o (IF Len(nutritionInfo.nutrients) > 0
      THEN "\nNutritional Content:\n" \o nutrientLines(nutritionInfo.nutrients, 1) \o NutritionNote
      ELSE "")

\* ------------------------------------------------------------------------
\* IngredientExtractor: extractIngredientsFromText, parseIngredients
\* ------------------------------------------------------------------------

\* the section markers that an ASCII text can hold (the French marker, with
\* its accented letter, cannot occur in the texts of this model)
ingredientMarkers ==
  << "ingredients:", "ingredients ", "ingredient list:", "ingredient list ",
     "contains:", "made with:", "composition:", "ingredientes:", "zutaten:" >>

\* a loop that stops at the first marker of the list that the text holds
RECURSIVE markerLoopFirstListed(_, _, _)
markerLoopFirstListed(text, k, ingredientStart) ==
  IF k > Len(ingredientMarkers) THEN ingredientStart
  ELSE IF indexOf(text, ingredientMarkers[k]) # -1
       THEN indexOf(text, ingredientMarkers[k]) + Len(ingredientMarkers[k])
       ELSE markerLoopFirstListed(text, k + 1, ingredientStart)

\* the loop over the markers; ingredientStart is counted from 0, -1 = none
RECURSIVE markerLoop(_, _, _)
markerLoop(text, k, ingredientStart) ==
  LET earlier(marker, index) ==
        IF index # -1 /\ (ingredientStart = -1 \/ index < ingredientStart)
        THEN index + Len(marker)
        ELSE ingredientStart
  IN  IF k > Len(ingredientMarkers) THEN ingredientStart
      ELSE markerLoop(text, k + 1, earlier(ingredientMarkers[k], indexOf(text, ingredientMarkers[k])))

SeparatorChars == {",", ";"}

\* the characters that . does not match
LineTerminators == {"\n", "\r"}

commonIngredients ==
  << "water", "sugar", "salt", "flour", "oil", "milk", "egg", "wheat", "corn", "soy", "rice" >>

ingredientSuffixes == << "acid", "extract", "powder", "syrup", "starch", "protein" >>

ingredientPrefixes == << "natural", "artificial" >>

\* /\b(water|sugar|...|rice)\b.*[,;]/i matches at position i
ingredientPattern1At(text, i) ==
  LET lineEnd(from) == first(LAMBDA j : CharAt(text, j) \in LineTerminators, from, Len(text))
      separatorIn(from, eol) == \E j \in from..(eol - 1) : CharAt(text, j) \in SeparatorChars
      word(w) ==
        /\ w > 0
        /\ wordBoundary(text, i)
        /\ wordBoundary(text, i + w)
        /\ separatorIn(i + w, lineEnd(i + w))
  IN  word(altAt(text, commonIngredients, i))

\* /\b\w+\s+(acid|extract|powder|syrup|starch|protein)\b/i matches at position i
ingredientPattern2At(text, i) ==
  LET suffix(q, a) == a > 0 /\ wordBoundary(text, q + a)
      spaces(p, q) == q > p /\ suffix(q, altAt(text, ingredientSuffixes, q))
      word(p) == p > i /\ spaces(p, skipSpace(text, p))
  IN  wordBoundary(text, i) /\ word(skipWord(text, i))

\* /\b(natural|artificial)\s+\w+/i matches at position i
ingredientPattern3At(text, i) ==
  LET spaces(p, q) == q > p /\ span(IsWord, text, q) >= 1
      prefix(a) == a > 0 /\ spaces(i + a, skipSpace(text, i + a))
  IN  wordBoundary(text, i) /\ prefix(altAt(text, ingredientPrefixes, i))

\* text.match(pattern).index for the three patterns, counted from 0; -1 = no match
patternIndex(text, k) ==
  LET at(i) == CASE k = 1 -> ingredientPattern1At(text, i)
                 [] k = 2 -> ingredientPattern2At(text, i)
                 [] OTHER -> ingredientPattern3At(text, i)
      index(j) == IF j > Len(text) THEN -1 ELSE j - 1
  IN  index(first(at, 1, Len(text)))

NumPatterns == 3

\* the loop over the patterns: the first pattern of the list that matches
RECURSIVE patternLoop(_, _)
patternLoop(text, k) ==
  LET found(index) == IF index # -1 THEN index ELSE patternLoop(text, k + 1)
  IN  IF k > NumPatterns THEN -1 ELSE found(patternIndex(text, k))

findIngredientStart(text) ==
  LET orPattern(byMarker) == IF byMarker = -1 THEN patternLoop(text, 1) ELSE byMarker
  IN  orPattern(markerLoop(text, 1, -1))

stopPhrases ==
  << "nutrition facts", "nutritional information", "serving size", "servings per",
     "amount per serving", "calories", "total fat", "saturated fat", "trans fat",
     "cholesterol", "sodium", "total carb", "dietary fiber", "total sugars",
     "added sugars", "protein", "vitamin", "calcium", "iron", "potassium",
     "% daily value", "daily value", "manufactured by", "distributed by",
     "best before", "expiry date", "use by", "storage", "keep refrigerated",
     "allergen", "allergy", "warning", "caution", "net weight", "net wt",
     "product of", "made in", "upc", "barcode", "lot", "batch" >>

hasStopPhrase(lowerLine) == \E k \in 1..Len(stopPhrases) : includes(lowerLine, stopPhrases[k])

\* /^\d+\s*(g|mg|mcg|iu|%)\s*$/
isUnitNumber(line) ==
  LET closed(p, u) == u > 0 /\ skipSpace(line, p + u) = Len(line) + 1
      unit(p) == closed(p, altAt(line, << "g", "mg", "mcg", "iu", "%" >>, p))
      digits(p) == p > 1 /\ unit(skipSpace(line, p))
  IN  digits(skipDigits(line, 1))

\* /^\d+\s*calories?\s*$/i
isCalorieCount(line) ==
  LET ended(ls, q) == skipSpace(ls, skipOptional(ls, "s", q)) = Len(ls) + 1
      counted(ls, p) == matchAt(ls, "calorie", p) /\ ended(ls, p + 7)
      lowered(ls) == span(IsDigit, ls, 1) >= 1 /\ counted(ls, skipSpace(ls, skipDigits(ls, 1)))
  IN  lowered(toLowerCase(line))

\* /^\d+\/\d+\s*cup/
isCupFraction(line) ==
  LET denominator(p, q) == q > p /\ matchAt(line, "cup", skipSpace(line, q))
      numerator(p) == p > 1 /\ matchAt(line, "/", p) /\ denominator(p + 1, skipDigits(line, p + 1))
  IN  numerator(skipDigits(line, 1))

\* /^\d+[\d\s%.,]*$/
isMostlyNumbers(line) ==
  /\ Len(line) >= 1 /\ IsDigit(CharAt(line, 1))
  /\ \A i \in 1..Len(line) : IsDigit(CharAt(line, i)) \/ IsSpace(CharAt(line, i)) \/ CharAt(line, i) \in {"%", ".", ","}

\* (line.match(/[^\w\s]/g) || []).length > line.length * 0.3
hasExcessivePunctuation(line) ==
  10 * Cardinality({i \in 1..Len(line) : ~IsWord(CharAt(line, i)) /\ ~IsSpace(CharAt(line, i))}) > 3 * Len(line)

MinLineLength == 3

\* the line (already trimmed) is pushed to cleanLines
keepLine(line) ==
  /\ Len(line) # 0
  /\ ~hasStopPhrase(toLowerCase(line))
  /\ ~isUnitNumber(line)
  /\ ~isCalorieCount(line)
  /\ ~isCupFraction(line)
  /\ ~(Len(line) < MinLineLength)
  /\ ~isMostlyNumbers(line)
  /\ ~hasExcessivePunctuation(line)

\* /\s+/g
spacesAt(s, i) == span(IsSpace, s, i)

\* .replace(/^\d+\s+/, '')
stripLeadingNumber(s) ==
  LET stripped(p, q) == IF p > 1 /\ q > p THEN substring(s, q - 1) ELSE s
      digits(p) == stripped(p, skipSpace(s, p))
  IN  digits(skipDigits(s, 1))

\* /\s+\d+%\s*/g
percentAt(s, i) ==
  LET percent(p, q) == IF p > i /\ q > p /\ matchAt(s, "%", q) THEN skipSpace(s, q + 1) - i ELSE 0
      spaces(p) == percent(p, skipDigits(s, p))
  IN  spaces(skipSpace(s, i))

\* /[|\\]/g
artifactAt(s, i) == IF CharAt(s, i) \in {"|", "\\"} THEN 1 ELSE 0

\* /[,;]\s*[,;]/g
doubleSeparatorAt(s, i) ==
  LET second(q) ==
        IF CharAt(s, i) \in SeparatorChars /\ q <= Len(s) /\ CharAt(s, q) \in SeparatorChars
        THEN q + 1 - i ELSE 0
  IN  second(skipSpace(s, i + 1))

\* /\s*c\s*/g for the separator c
separatorAt(s, c, i) ==
  LET found(p) == IF matchAt(s, c, p) THEN skipSpace(s, p + 1) - i ELSE 0
  IN  found(skipSpace(s, i))

\* /\s*,\s*/g
commaAt(s, i) == separatorAt(s, ",", i)

\* /\s*;\s*/g
semicolonAt(s, i) == separatorAt(s, ";", i)

\* .replace(/[,;]\s*$/, '')
stripTrailingSeparator(s) ==
  cutAt(s, first(LAMBDA i : CharAt(s, i) \in SeparatorChars /\ skipSpace(s, i + 1) = Len(s) + 1, 1, Len(s)))

\* the chain of replacements applied to the joined lines
cleanResult(joined) ==
  LET r1 == replaceAll(spacesAt, joined, " ")
      r2 == stripLeadingNumber(r1)
      r3 == replaceAll(percentAt, r2, " ")
      r4 == replaceAll(artifactAt, r3, "")
      r5 == replaceAll(doubleSeparatorAt, r4, ",")
      r6 == replaceAll(commaAt, r5, ", ")
      r7 == replaceAll(semicolonAt, r6, "; ")
      r8 == stripTrailingSeparator(r7)
  IN  trim(r8)

\* the ingredient-list branch of extractIngredientsFromText
extractIngredientList(ocrText) ==
  LET ingredientText(ingredientStart) ==
        IF ingredientStart # -1 THEN trim(substring(ocrText, ingredientStart)) ELSE ocrText
      cleanLines(text) == SelectSeq(trimAll(split(text, {"\n"})), keepLine)
  IN  cleanResult(trim(join(cleanLines(ingredientText(findIngredientStart(toLowerCase(ocrText)))), " ")))

extractIngredientsFromText(ocrText) ==
  IF Len(trim(ocrText)) = 0 THEN ""
  ELSE IF isNutritionTable(ocrText)
       THEN formatNutritionForAnalysis(extractNutritionInfo(ocrText))
       ELSE extractIngredientList(ocrText)

MinTokenLength == 2

MaxTokenLength == 100

MaxIngredients == 50

\* /^\d+[\d\s%]*$/
isPureNumber(token) ==
  /\ Len(token) >= 1 /\ IsDigit(CharAt(token, 1))
  /\ \A i \in 1..Len(token) : IsDigit(CharAt(token, i)) \/ IsSpace(CharAt(token, i)) \/ CharAt(token, i) = "%"

\* a filter that keeps every token
isAnyToken(i) == TRUE

\* the filter of parseIngredients
isIngredientToken(i) ==
  LET kept(lower) ==
        /\ ~(Len(i) < MinTokenLength \/ Len(i) > MaxTokenLength)
        /\ ~isPureNumber(lower)
        /\ ~includes(lower, "serving")
        /\ ~includes(lower, "calorie")
        /\ ~includes(lower, "daily value")
  IN  kept(toLowerCase(i))

\* the array without the slice: all of it
sliceAll(arr, n) == arr

\* Array.prototype.slice(0, n)
sliceTo(arr, n) == SubSeq(arr, 1, IF Len(arr) < n THEN Len(arr) ELSE n)

\* the split on /[,;]/ (the two bullet characters of the source's class are
\* outside the ASCII alphabet of this model)
parseIngredients(text) ==
  LET tokens(cleaned) ==
        IF cleaned = "" THEN << >>
        ELSE sliceTo(SelectSeq(trimAll(split(cleaned, SeparatorChars)), isIngredientToken), MaxIngredients)
  IN  tokens(extractIngredientsFromText(text))

\* ------------------------------------------------------------------------
\* JavaScript values and JSON.parse
\* ------------------------------------------------------------------------

\* a JavaScript value: t is its type; b, n/frac, s, keys/items hold a boolean,
\* a number (integer part and fraction digits), a string, an array's items
\* or an object's keys and their values
JValue(t, b, n, frac, s, keys, items) ==
  [t |-> t, b |-> b, n |-> n, frac |-> frac, s |-> s, keys |-> keys, items |-> items]

Undefined == JValue("undefined", FALSE, 0, "", "", << >>, << >>)

JNull == JValue("null", FALSE, 0, "", "", << >>, << >>)

JBool(b) == JValue("bool", b, 0, "", "", << >>, << >>)

JNum(n, frac) == JValue("num", FALSE, n, frac, "", << >>, << >>)

JStr(s) == JValue("str", FALSE, 0, "", s, << >>, << >>)

JArr(items) == JValue("arr", FALSE, 0, "", "", << >>, items)

JObj(keys, items) == JValue("obj", FALSE, 0, "", "", keys, items)

isZeroFraction(frac) == \A i \in 1..Len(frac) : CharAt(frac, i) = "0"

\* ToBoolean
truthy(v) ==
  CASE v.t \in {"undefined", "null"} -> FALSE
    [] v.t = "bool" -> v.b
    [] v.t = "num" -> ~(v.n = 0 /\ isZeroFraction(v.frac))
    [] v.t = "str" -> v.s # ""
    [] OTHER -> TRUE

\* a || b
or(a, b) == IF truthy(a) THEN a ELSE b

\* v.key: a TypeError for null and undefined; the last member named key of
\* an object; undefined otherwise
throwsOnGet(v) == v.t \in {"undefined", "null"}

get(v, key) ==
  LET last(hits) == IF v.t = "obj" /\ hits # {} THEN v.items[Max(hits)] ELSE Undefined
  IN  last({k \in 1..Len(v.keys) : v.keys[k] = key})

ParseError == [ok |-> FALSE, v |-> Undefined, next |-> 0]

Parsed(v, next) == [ok |-> TRUE, v |-> v, next |-> next]

RECURSIVE digitsValue(_, _, _)
digitsValue(s, from, to) ==
  IF from > to THEN 0
  ELSE 10 * digitsValue(s, from, to - 1)
       + (CHOOSE d \in 0..9 : CharAt("0123456789", d + 1) = CharAt(s, to))

\* -?(0|[1-9]\d*)(\.\d+)? at position i (no exponent part in this model)
parseNumber(s, i) ==
  LET \* p is the first digit, q the position after the integer part and r
      \* the position after the fraction
      number(p, q, r) ==
        IF q = p \/ (matchAt(s, ".", q) /\ r = q + 1) THEN ParseError
        ELSE Parsed(JNum((IF p > i THEN -1 ELSE 1) * digitsValue(s, p, q - 1),
                         IF r > q THEN SubSeq(s, q + 1, r - 1) ELSE ""),
                    r)
      fraction(p, q) == number(p, q, IF matchAt(s, ".", q) THEN skipDigits(s, q + 1) ELSE q)
      integer(p) == fraction(p, IF matchAt(s, "0", p) THEN p + 1 ELSE skipDigits(s, p))
  IN  integer(skipOptional(s, "-", i))

\* a string literal at position i (the texts of this model hold no escapes)
parseString(s, i) ==
  LET literal(close, body) ==
        IF ~matchAt(s, "\"", i) \/ close > Len(s)
           \/ (\E k \in 1..Len(body) : CharAt(body, k) \in {"\n", "\r", "\t", "\\"})
        THEN ParseError
        ELSE Parsed(JStr(body), close + 1)
      closing(close) == literal(close, SubSeq(s, i + 1, close - 1))
  IN  closing(firstOccurrence(s, "\"", i + 1))

RECURSIVE parseValue(_, _)
RECURSIVE parseElements(_, _, _)
RECURSIVE parseMembers(_, _, _, _)

\* the elements of an array after its [ or after a comma
parseElements(s, i, items) ==
  LET after(e, p) ==
        IF ~e.ok THEN ParseError
        ELSE IF matchAt(s, ",", p) THEN parseElements(s, p + 1, Append(items, e.v))
        ELSE IF matchAt(s, "]", p) THEN Parsed(JArr(Append(items, e.v)), p + 1)
        ELSE ParseError
      element(e) == after(e, skipSpace(s, e.next))
  IN  element(parseValue(s, i))

\* the members of an object after its { or after a comma
parseMembers(s, i, keys, items) ==
  LET after(k, e, p) ==
        IF ~e.ok THEN ParseError
        ELSE IF matchAt(s, ",", p) THEN parseMembers(s, p + 1, Append(keys, k.v.s), Append(items, e.v))
        ELSE IF matchAt(s, "}", p) THEN Parsed(JObj(Append(keys, k.v.s), Append(items, e.v)), p + 1)
        ELSE ParseError
      value(k, e) == after(k, e, skipSpace(s, e.next))
      member(k, colon) ==
        IF ~k.ok \/ ~matchAt(s, ":", colon) THEN ParseError ELSE value(k, parseValue(s, colon + 1))
      key(k) == member(k, skipSpace(s, k.next))
  IN  key(parseString(s, skipSpace(s, i)))

parseValue(s, i) ==
  LET \* p is the position of the value's first character c, q the position
      \* of what follows an opening bracket
      value(p, c, q) ==
        IF p > Len(s) THEN ParseError
        ELSE IF c = "{" THEN
               (IF matchAt(s, "}", q) THEN Parsed(JObj(<< >>, << >>), q + 1)
                ELSE parseMembers(s, p + 1, << >>, << >>))
        ELSE IF c = "[" THEN
               (IF matchAt(s, "]", q) THEN Parsed(JArr(<< >>), q + 1)
                ELSE parseElements(s, p + 1, << >>))
        ELSE IF c = "\"" THEN parseString(s, p)
        ELSE IF c = "-" \/ IsDigit(c) THEN parseNumber(s, p)
        ELSE IF matchAt(s, "true", p) THEN Parsed(JBool(TRUE), p + 4)
        ELSE IF matchAt(s, "false", p) THEN Parsed(JBool(FALSE), p + 5)
        ELSE IF matchAt(s, "null", p) THEN Parsed(JNull, p + 4)
        ELSE ParseError
      from(p) == value(p, CharAt(s, p), skipSpace(s, p + 1))
  IN  from(skipSpace(s, i))

\* JSON.parse: ok is FALSE where it throws a SyntaxError
JSONparse(text) ==
  LET whole(r) == IF r.ok /\ skipSpace(text, r.next) = Len(text) + 1 THEN r ELSE ParseError
  IN  whole(parseValue(text, 1))

\* ------------------------------------------------------------------------
\* analyzeIngredientsWithLLM: the handling of the response body
\* ------------------------------------------------------------------------

\* /,\s*"[^"]*":?\s*$/ matches at position i
incompleteKeyAt(s, i) ==
  LET closed(q2) == q2 <= Len(s) /\ skipSpace(s, skipOptional(s, ":", q2 + 1)) = Len(s) + 1
      key(q1) == matchAt(s, "\"", q1) /\ closed(firstOccurrence(s, "\"", q1 + 1))
  IN  matchAt(s, ",", i) /\ key(skipSpace(s, i + 1))

\* .replace(/,\s*"[^"]*":?\s*$/, '')
stripIncompleteKey(s) == cutAt(s, first(LAMBDA i : incompleteKeyAt(s, i), 1, Len(s)))

\* .replace(/,\s*$/, '')
stripTrailingComma(s) ==
  cutAt(s, first(LAMBDA i : matchAt(s, ",", i) /\ skipSpace(s, i + 1) = Len(s) + 1, 1, Len(s)))

\* (s.match(/c/g) || []).length
countChar(s, c) == Cardinality({i \in 1..Len(s) : CharAt(s, i) = c})

\* the loop  for (i = 0; i < n; i++) text += c
appendTimes(c, n) == concatRange(LAMBDA k : c, 1, n)

\* the JSON salvaging of the first catch block
repairJson(responseText) ==
  LET closeAll(fixedJson) ==
        fixedJson \o appendTimes("]", countChar(fixedJson, "[") - countChar(fixedJson, "]"))
                  \o appendTimes("}", countChar(fixedJson, "{") - countChar(fixedJson, "}"))
  IN  closeAll(stripTrailingComma(stripIncompleteKey(trim(responseText))))

\* one try block around JSON.parse, without the repair
parseOnce(responseText) ==
  [ok |-> JSONparse(responseText).ok, analysis |-> JSONparse(responseText).v, parses |-> 1]

\* the two nested try blocks around JSON.parse: the value, and how many
\* times JSON.parse ran
parseResponse(responseText) ==
  LET secondTry(r) == [ok |-> r.ok, analysis |-> r.v, parses |-> 2]
      firstTry(r) ==
        IF r.ok THEN [ok |-> TRUE, analysis |-> r.v, parses |-> 1]
        ELSE secondTry(JSONparse(repairJson(responseText)))
  IN  firstTry(JSONparse(responseText))

\* analysis.product?.key
getOptional(v, key) == IF throwsOnGet(v) THEN Undefined ELSE get(v, key)

DefaultRating == 50

DefaultScoreBreakdown ==
  JObj(<< "allergy_risk", "toxicological_concerns", "nutrition_or_usage", "user_priority_alignment" >>,
       << JNum(50, ""), JNum(50, ""), JNum(50, ""), JNum(50, "") >>)

DefaultSummary ==
  JObj(<< "main_takeaway", "recommended_next_steps" >>,
       << JStr("Analysis was incomplete"), JArr(<< JStr("Try scanning again with better lighting") >>) >>)

\* the backfilling of the parsed analysis with defaults
completeAnalysis(analysis, productName, productCategory) ==
  [ product |-> [ name |-> or(getOptional(get(analysis, "product"), "name"), JStr(productName)),
                  category |-> or(getOptional(get(analysis, "product"), "category"), JStr(productCategory)) ],
    ingredients |-> or(get(analysis, "ingredients"), JArr(<< >>)),
    issues |-> or(get(analysis, "issues"), JArr(<< >>)),
    overall_rating |-> or(get(analysis, "overall_rating"), JNum(DefaultRating, "")),
    letter_grade |-> or(get(analysis, "letter_grade"), JStr("C")),
    score_breakdown |-> or(get(analysis, "score_breakdown"), DefaultScoreBreakdown),
    personalized_warnings |-> or(get(analysis, "personalized_warnings"), JArr(<< >>)),
    personalized_advice |-> or(get(analysis, "personalized_advice"),
                               JArr(<< JStr("Analysis incomplete - please try scanning again") >>)),
    summary |-> or(get(analysis, "summary"), DefaultSummary),
    confidence |-> or(get(analysis, "confidence"), JNum(0, "5")),
    disclaimer |-> or(get(analysis, "disclaimer"),
                      JStr("This analysis was incomplete due to processing limitations.")) ]

\* what analyzeIngredientsWithLLM does with the body it has read: the
\* completed analysis, or the error it throws
handleResponseText(responseText, productName, productCategory) ==
  LET handled(parsed) ==
        IF ~parsed.ok
        THEN [ok |-> FALSE, error |-> "json", parses |-> parsed.parses, analysis |-> Undefined]
        ELSE IF throwsOnGet(parsed.analysis)
        THEN [ok |-> FALSE, error |-> "type", parses |-> parsed.parses, analysis |-> Undefined]
        ELSE [ok |-> TRUE, error |-> "none", parses |-> parsed.parses,
              analysis |-> completeAnalysis(parsed.analysis, productName, productCategory)]
  IN  IF responseText = "" \/ trim(responseText) = ""
      THEN [ok |-> FALSE, error |-> "empty", parses |-> 0, analysis |-> Undefined]
      ELSE handled(parseResponse(responseText))

\* ------------------------------------------------------------------------
\* AnalysisOrchestrator: createProductFromScan, createProductFallback
\* ------------------------------------------------------------------------

\* a || b for an optional string a
orString(a, b) == IF IsSome(a) /\ a[1] # "" THEN a[1] ELSE b

\* name.charAt(0).toUpperCase() + name.slice(1)
capitalize(name) == toUpperCase(CharAt(name, 1)) \o sliceStr(name, 1, Len(name))

fallbackIngredient(name) ==
  [ name |-> JStr(capitalize(name)),
    category |-> JStr("Unknown"),
    description |-> JStr("Analysis unavailable - please try again later."),
    healthRating |-> JStr("caution"),
    concerns |-> JArr(<< JStr("Unable to analyze - LLM service unavailable") >>),
    benefits |-> JArr(<< >>),
    isVegan |-> JBool(TRUE),
    isNatural |-> JBool(FALSE) ]

createProductFallback(scanData, timestamp) ==
  LET product(ingredientNames) ==
        [ id |-> timestamp,
          name |-> JStr(orString(scanData.name, "Unknown Product")),
          brand |-> orString(scanData.brand, "Unknown Brand"),
          category |-> JStr(orString(scanData.category, "Uncategorized")),
          imageUri |-> scanData.imageUri,
          barcode |-> scanData.barcode,
          ingredients |-> [k \in 1..Len(ingredientNames) |-> fallbackIngredient(ingredientNames[k])],
          rawIngredientText |-> scanData.ingredientText,
          overallScore |-> JNum(50, ""),
          letterGrade |-> JStr("C"),
          personalizedWarnings |-> JArr(<< JStr("Analysis incomplete - AI service temporarily unavailable") >>),
          personalizedAdvice |-> JArr(<< JStr("Try scanning again when connected to the internet") >>),
          scannedAt |-> timestamp ]
  IN  product(parseIngredients(scanData.ingredientText))

\* the callback of llmAnalysis.ingredients.map
mapIngredient(ing) ==
  [ name |-> get(ing, "name"),
    category |-> get(ing, "category"),
    description |-> get(ing, "description"),
    healthRating |-> get(ing, "healthRating"),
    concerns |-> get(ing, "concerns"),
    benefits |-> get(ing, "benefits"),
    isVegan |-> get(ing, "isVegan"),
    isNatural |-> get(ing, "isNatural") ]

\* llmAnalysis.ingredients.map(...) throws a TypeError
mapThrows(ingredients) ==
  \/ ingredients.t # "arr"
  \/ \E k \in 1..Len(ingredients.items) : throwsOnGet(ingredients.items[k])

\* JSON.stringify of an object, as the receiver reads it: the members whose
\* value is undefined are left out, every other member is kept as it is
stringifyObject(keys, items) ==
  LET kept(ks) == JObj([j \in 1..Len(ks) |-> keys[ks[j]]], [j \in 1..Len(ks) |-> items[ks[j]]])
  IN  kept(ascending({k \in 1..Len(keys) : items[k].t # "undefined"}, 1, Len(keys)))

\* the body of the request of analyzeIngredientsWithLLM
requestBody(productName, productCategory, rawIngredients, userProfile, country) ==
  stringifyObject(
    << "route", "productName", "productCategory", "rawIngredients", "userProfile", "country" >>,
    << JStr("analysis"), JStr(productName), JStr(productCategory), JStr(rawIngredients),
       userProfile, country >>)

\* the cleaned text without the fallback to the raw text
analysisTextCleaned(scanData) == extractIngredientsFromText(scanData.ingredientText)

\* textForAnalysis: the text given to the oracle and kept as rawIngredientText
analysisText(scanData) ==
  LET orRaw(cleanedIngredients) ==
        IF cleanedIngredients # "" THEN cleanedIngredients ELSE scanData.ingredientText
  IN  orRaw(extractIngredientsFromText(scanData.ingredientText))

\* the return statement of the try block
productFromAnalysis(scanData, textForAnalysis, llmAnalysis, timestamp) ==
  [ id |-> timestamp,
    name |-> or(llmAnalysis.product.name, JStr(orString(scanData.name, "Unknown Product"))),
    brand |-> orString(scanData.brand, "Unknown Brand"),
    category |-> or(llmAnalysis.product.category, JStr(orString(scanData.category, "Uncategorized"))),
    imageUri |-> scanData.imageUri,
    barcode |-> scanData.barcode,
    ingredients |-> [k \in 1..Len(llmAnalysis.ingredients.items) |-> mapIngredient(llmAnalysis.ingredients.items[k])],
    rawIngredientText |-> textForAnalysis,
    overallScore |-> llmAnalysis.overall_rating,
    letterGrade |-> llmAnalysis.letter_grade,
    personalizedWarnings |-> llmAnalysis.personalized_warnings,
    personalizedAdvice |-> llmAnalysis.personalized_advice,
    scannedAt |-> timestamp ]

\* the catch block of createProductFromScan: the failure is logged and the
\* fallback product returned
catchFailure(scanData, error, timestamp) ==
  [status |-> "returned", path |-> "fallback", failure |-> error,
   product |-> createProductFallback(scanData, timestamp)]

\* analyzeIngredientsWithLLM from the point where the body has been read
analyzeBody(scanData, responseText) ==
  handleResponseText(responseText, orString(scanData.name, "Unknown Product"),
                     orString(scanData.category, "Uncategorized"))

\* createProductFromScan from the point where analyzeIngredientsWithLLM
\* has returned or thrown with the outcome r
finishWithAnalysis(scanData, textForAnalysis, r, timestamp) ==
  IF r.ok /\ ~mapThrows(r.analysis.ingredients)
  THEN [status |-> "returned", path |-> "oracle", failure |-> "none",
        product |-> productFromAnalysis(scanData, textForAnalysis, r.analysis, timestamp)]
  ELSE catchFailure(scanData, IF r.ok THEN "type" ELSE r.error, timestamp)

\* ------------------------------------------------------------------------
\* ComparisonEngine: compareProducts
\* ------------------------------------------------------------------------

RECURSIVE numberToString(_)
\* String(n) for an integer n
numberToString(n) ==
  IF n < 0 THEN "-" \o numberToString(0 - n)
  ELSE IF n < 10 THEN CharAt("0123456789", n + 1)
  ELSE numberToString(n \div 10) \o CharAt("0123456789", (n % 10) + 1)

\* a comparator that ranks the lowest score first
byScoreAscending(a, b) == a.overallScore - b.overallScore

\* the comparator (a, b) => b.overallScore - a.overallScore
byScore(a, b) == b.overallScore - a.overallScore

\* the place of p in the sorted array ranked: after every element that the
\* comparator does not put behind p (the sort is stable)
insertRanked(ranked, p) ==
  LET place(k) == SubSeq(ranked, 1, k - 1) \o << p >> \o SubSeq(ranked, k, Len(ranked))
  IN  place(first(LAMBDA k : byScore(ranked[k], p) > 0, 1, Len(ranked)))

\* [...products].sort(byScore), on the first n products
RECURSIVE sortByScore(_, _)
sortByScore(products, n) ==
  IF n = 0 THEN << >> ELSE insertRanked(sortByScore(products, n - 1), products[n])

\* a Map that keeps, for every ingredient, only the first product holding it
noteIngredientOnce(allIngredients, ingredient, productName) ==
  IF \E k \in 1..Len(allIngredients) : allIngredients[k].ingredient = ingredient
  THEN allIngredients
  ELSE Append(allIngredients, [ingredient |-> ingredient, presentIn |-> << productName >>])

\* the entries of the Map allIngredients, in insertion order, after
\* ingredient has been seen in the product called productName
noteIngredient(allIngredients, ingredient, productName) ==
  LET noted(keys) ==
        IF keys = {} THEN Append(allIngredients, [ingredient |-> ingredient, presentIn |-> << productName >>])
        ELSE IF \E j \in 1..Len(allIngredients[Min(keys)].presentIn) :
                  allIngredients[Min(keys)].presentIn[j] = productName
        THEN allIngredients
        ELSE [allIngredients EXCEPT ![Min(keys)].presentIn = Append(@, productName)]
  IN  noted({k \in 1..Len(allIngredients) : allIngredients[k].ingredient = ingredient})

\* product.ingredients.forEach, from the k-th ingredient on
RECURSIVE noteProduct(_, _, _)
noteProduct(allIngredients, product, k) ==
  IF k > Len(product.ingredients) THEN allIngredients
  ELSE noteProduct(noteIngredient(allIngredients, product.ingredients[k].name, product.name), product, k + 1)

\* products.forEach, from the n-th product on
RECURSIVE noteProducts(_, _, _)
noteProducts(allIngredients, products, n) ==
  IF n > Len(products) THEN allIngredients
  ELSE noteProducts(noteProduct(allIngredients, products[n], 1), products, n + 1)

\* products.find(p => p.ingredients.some(i => i.name === ingredient)), then
\* its first ingredient of that name: ing.healthRating || 'caution'
ratingOf(products, ingredient) ==
  LET holds(product) == {k \in 1..Len(product.ingredients) : product.ingredients[k].name = ingredient}
      rated(product) == orString(product.ingredients[Min(holds(product))].healthRating, "caution")
      found(holders) == IF holders = {} THEN "caution" ELSE rated(products[Min(holders)])
  IN  found({n \in 1..Len(products) : holds(products[n]) # {}})

\* every entry of allIngredients, without the filter
differingOfAll(products, allIngredients) ==
  [k \in 1..Len(allIngredients) |->
     [ingredient |-> allIngredients[k].ingredient, presentIn |-> allIngredients[k].presentIn,
      rating |-> ratingOf(products, allIngredients[k].ingredient)]]

\* the filter and map over the entries of allIngredients
differingOf(products, allIngredients) ==
  LET differs(entry) == Len(entry.presentIn) < Len(products)
      described(entries) ==
        [k \in 1..Len(entries) |->
           [ingredient |-> entries[k].ingredient, presentIn |-> entries[k].presentIn,
            rating |-> ratingOf(products, entries[k].ingredient)]]
  IN  described(SelectSeq(allIngredients, differs))

summaryOf(best) ==
  best.name \o " ranks highest with a score of " \o numberToString(best.overallScore) \o ". "
    \o "It has " \o numberToString(Len(best.personalizedWarnings)) \o " warnings based on your profile."

compareProducts(products) ==
  LET compared(ranked) ==
        [ products |-> products,
          rankedOrder |-> [k \in 1..Len(ranked) |-> ranked[k].id],
          summary |-> summaryOf(ranked[1]),
          differingIngredients |-> differingOf(products, noteProducts(<< >>, products, 1)) ]
  IN  IF Len(products) = 0
      THEN [products |-> << >>, rankedOrder |-> << >>, summary |-> "No products to compare",
            differingIngredients |-> << >>]
      ELSE compared(sortByScore(products, Len(products)))

\* products.sort(byScore) without the copy: the caller's array is the
\* sorted one
sortedInPlace(products, ranked) == ranked

\* the caller's array after [...products].sort(byScore): the copy was
\* sorted, the array itself is as it was
sortedCopy(products, ranked) == products

\* the caller's array after compareProducts(products) has returned
productsAfterCompare(products) ==
  IF Len(products) = 0 THEN products
  ELSE sortedCopy(products, sortByScore(products, Len(products)))

\* ------------------------------------------------------------------------
\* Bounds and inputs
\* ------------------------------------------------------------------------

\* the milliseconds Date.now() may advance during a run
MaxClock == 2

\* the number of text fragments an input text is put together from
MaxFragments == 2

\* two createProductFromScan calls, which may be in flight together
Calls == {1, 2}

\* a comma-separated list of n two-letter ingredients
ManyIngredients(n) == "Ingredients: " \o concatRange(LAMBDA k : IF k = 1 THEN "ab" ELSE ", ab", 1, n)

\* a word of n letters
LongWord(n) == concatRange(LAMBDA k : "x", 1, n)

ScanInput(name, category, barcode, ingredientText) ==
  [name |-> name, brand |-> None, category |-> category, barcode |-> barcode,
   ingredientText |-> ingredientText, imageUri |-> None]

\* the scans given to createProductFromScan
Scans ==
  { ScanInput(None, None, None, ""),
    ScanInput(None, None, None, " \n "),
    ScanInput(Some("Soup"), Some("Food"), Some("0123"), "Ingredients: Water, Sugar, salt, Natural Flavor."),
    ScanInput(Some("Bar"), None, None, "Nutrition Facts\nServing Size 1 cup\nCalories 120\nTotal Fat 2g"),
    ScanInput(None, Some("Food"), None, ManyIngredients(MaxIngredients + 2)) }

FullBody ==
  "{\"product\":{\"name\":\"Soup\",\"category\":\"Food\"},"
  \o "\"ingredients\":[{\"name\":\"Water\",\"category\":\"Base\",\"description\":\"d\","
  \o "\"healthRating\":\"safe\",\"concerns\":[],\"benefits\":[\"hydration\"],"
  \o "\"isVegan\":true,\"isNatural\":true}],"
  \o "\"overall_rating\":80,\"letter_grade\":\"B\","
  \o "\"personalized_warnings\":[\"w\"],\"personalized_advice\":[\"ok\"]}"

\* the bodies the oracle may answer with: complete, incomplete, out of
\* range, cut off (repairable or not), and no JSON at all
\* a body cut off after a complete value, inside an object in an array in
\* an object
TruncatedNestedBody == "{\"ingredients\":[{\"name\":\"Water\""

ResponseBodies ==
  { FullBody,
    "{\"overall_rating\":0,\"letter_grade\":\"F\"}",
    "{\"overall_rating\":150,\"letter_grade\":\"Z\"}",
    "{\"ingredients\":[{\"name\":\"Water\"}],\"overall_rating\":70,\"letter_grade\":\"B\"}",
    "{\"product\":{",
    TruncatedNestedBody,
    "{\"overall_rating\":90,\"letter_grade\":\"A\",\"ingredients\":\"water\"}",
    "null",
    "<html>502</html>",
    "  ",
    "" }

\* the scans and bodies of the runs with two calls in flight
ConcurrentScans == {sd \in Scans : Len(sd.ingredientText) <= 3}

ConcurrentBodies == {FullBody, "<html>502</html>"}

Allergy(name, severity) == JObj(<< "name", "severity" >>, << JStr(name), JStr(severity) >>)

ProfileLists ==
  << "allergies", "sensitivities", "dietaryPreferences", "priorities", "avoidList", "seekList" >>

UserProfile(allergies, sensitivities, dietaryPreferences, priorities, avoidList, seekList) ==
  JObj(ProfileLists \o << "onboardingComplete" >>,
       << JArr(allergies), JArr(sensitivities), JArr(dietaryPreferences), JArr(priorities),
          JArr(avoidList), JArr(seekList), JBool(TRUE) >>)

\* the profiles given to createProductFromScan: one without entries, one with
\* an allergy and an avoid list, one with every list filled
Profiles ==
  { UserProfile(<< >>, << >>, << >>, << >>, << >>, << >>),
    UserProfile(<< Allergy("peanut", "severe") >>, << >>, << >>, << >>, << JStr("sugar") >>, << >>),
    UserProfile(<< Allergy("peanut", "severe") >>, << JStr("gluten") >>, << JStr("vegan") >>,
                << JStr("natural") >>, << JStr("sugar") >>, << JStr("fiber") >>) }

ConcurrentProfiles == {p \in Profiles : \A k \in 1..Len(ProfileLists) : Len(get(p, ProfileLists[k]).items) > 0}

\* the fragments the input texts of the text functions are put together from
Fragments ==
  << "Ingredients: ",
     "Water, Sugar; salt",
     "Contains: ",
     "made with: Milk, 12%, a, ",
     "12 ",
     "34 oats. ",
     "Calories 120, Sodium 5mg\n",
     "PROTEIN 3g per serving\n",
     "calories ",
     "Salt, " \o LongWord(MaxTokenLength + 1) \o ", " >>

\* the ingredient line of a label
LabelText == "Ingredients: Water, Sugar, Salt, Natural Flavor."

\* the lines of a nutrition facts table
NutritionLabelText == "Nutrition Facts\nCalories 120\nSodium 170mg 8%\nProtein 3g"

\* two markers with nothing between them, the later of the list first
AdjacentMarkersText == "made with:ingredients: Oats, Honey"

\* a text without marker that the third pattern matches before the first
HeuristicText == "natural flavor and water, oats"

RECURSIVE TextsOf(_)
TextsOf(n) ==
  IF n = 0 THEN {""}
  ELSE TextsOf(n - 1) \cup {t \o Fragments[k] : t \in TextsOf(n - 1), k \in 1..Len(Fragments)}

\* the texts given to the text functions
TextInputs ==
  TextsOf(MaxFragments)
    \cup {ManyIngredients(n) : n \in (MaxIngredients - 1)..(MaxIngredients + 2)}
    \cup {LabelText, NutritionLabelText, AdjacentMarkersText, HeuristicText}

\* the longest list of products given to compareProducts
MaxProducts == 3

ComparedIngredient(name, healthRating) == [name |-> name, healthRating |-> Some(healthRating)]

ComparedProduct(id, name, overallScore, ingredients, personalizedWarnings) ==
  [id |-> id, name |-> name, overallScore |-> overallScore, ingredients |-> ingredients,
   personalizedWarnings |-> personalizedWarnings]

IngredientX == ComparedIngredient("X", "safe")

IngredientY == ComparedIngredient("Y", "warning")

IngredientZ == ComparedIngredient("Z", "danger")

\* the products compared: A, B and C of different names, D of the same name
\* as A, and E with an ingredient listed twice; scores repeat
Catalogue ==
  << ComparedProduct("1", "A", 70, << IngredientX, IngredientY >>, << "w" >>),
     ComparedProduct("2", "B", 90, << IngredientX >>, << >>),
     ComparedProduct("3", "C", 70, << IngredientX, IngredientY, IngredientZ >>, << "w", "v" >>),
     ComparedProduct("4", "A", 90, << IngredientX >>, << >>),
     ComparedProduct("5", "E", 5, << IngredientY, IngredientY >>, << >>) >>

RECURSIVE ProductLists(_)
\* the lists of at most n products of the catalogue
ProductLists(n) ==
  IF n = 0 THEN {<< >>}
  ELSE ProductLists(n - 1)
         \cup {Append(l, Catalogue[k]) : l \in ProductLists(n - 1), k \in 1..Len(Catalogue)}

\* the ids of the products put on the comparison list
ProductIds == {"1", "2", "3", "4", "5", "6"}

\* the most calls of the provider's functions between two renders
MaxBatch == 2

\* the most calls of addScannedProduct in a run
MaxAdds == 3

\* the products of the old list that addScannedProduct keeps
KeptOnAdd == 99

\* the ids of the products scanned and compared in the runs of the history
HistoryIds == {"1", "2"}

\* a saved history of n products
History(n) == [k \in 1..n |-> [id |-> numberToString(100 + k)]]

\* the histories loaded at the start: none, a short one, one product short
\* of the cap, and a full one
Histories == {History(0), History(2), History(KeptOnAdd), History(KeptOnAdd + 1)}

\* the most products that addToComparison lets on the list
ComparisonLimit == 5

\* the texts read from a photo, typed by the user and found for a barcode
OcrTexts == {"Water, Salt", ""}

TypedTexts == {"sugar", " ", ""}

LookupTexts == {"Oats, Honey"}

Barcodes == {"0123", "4567"}

\* ------------------------------------------------------------------------
\* State
\* ------------------------------------------------------------------------

VARIABLES
  calls,   \* calls[c]: the state of the c-th createProductFromScan call
  now,     \* Date.now()
  txt,     \* the text functions applied to one input text
  cmp,     \* compareProducts applied to one list of products
  store,   \* the comparison list and the history of the UserContext provider
  scan     \* the state of the ScanScreen component

vars == << calls, now, txt, cmp, store, scan >>

IdleCall ==
  [ pc |-> "idle", scanData |-> ScanInput(None, None, None, ""), rawIngredients |-> "",
    request |-> Undefined,
    timer |-> "unset", fetches |-> 0, parses |-> 0, responseText |-> "",
    status |-> "pending", path |-> "none", failure |-> "none", product |-> None ]

IdleText ==
  [ text |-> "", stage |-> "input", table |-> FALSE, cleaned |-> "", again |-> "", tokens |-> << >>,
    nutrition |-> [servingSize |-> None, calories |-> None, nutrients |-> << >>] ]

\* given is the list as the caller built it, products the caller's array
\* as it is now
IdleComparison == [given |-> << >>, products |-> << >>, result |-> None, again |-> None]

\* the provider's state comparisonList, and the comparisonList of the last
\* render, which the callbacks of that render read
\* likewise scannedProducts and the scannedProducts of the last render; adds
\* counts the calls of addScannedProduct, added holds the ids they were
\* given, removed tells whether removeScannedProduct was called
IdleStore ==
  [ comparisonList |-> << >>, rendered |-> << >>, calls |-> 0,
    scannedProducts |-> << >>, renderedProducts |-> << >>,
    adds |-> 0, added |-> {}, removed |-> FALSE ]

\* the state of ScanScreen after mounting. pending is the await that a
\* handler is suspended on and alert the dialog that is open; found, fresh
\* and analyzed record what happened: the barcode of a lookup that found
\* ingredients, whether extractedText was set by a photo or lookup with no
\* typing since, and the arguments of the last call of createProductFromScan
IdleScan ==
  [ scanStep |-> "capture", isProcessing |-> FALSE, extractedText |-> "",
    manualIngredients |-> "", showManualInput |-> FALSE, scannedBarcode |-> None,
    pending |-> "none", lookup |-> "", alert |-> "none",
    found |-> None, fresh |-> FALSE, analyzed |-> None ]

\* the call c ends with the outcome r (of catchFailure or finishWithBody)
finish(c, r) ==
  [calls[c] EXCEPT !.pc = "done", !.status = r.status, !.path = r.path,
                   !.failure = r.failure, !.product = Some(r.product)]

\* ------------------------------------------------------------------------
\* Actions of a createProductFromScan call
\* ------------------------------------------------------------------------

\* createProductFromScan up to the await of fetch: the text is cleaned, the
\* timeout armed and the request sent
StartScan(c, scanData, profile) ==
  /\ calls[c].pc = "idle"
  /\ calls' = [calls EXCEPT ![c] =
                 [@ EXCEPT !.pc = "fetch", !.scanData = scanData,
                           !.rawIngredients = analysisText(scanData),
                           !.request = requestBody(orString(scanData.name, "Unknown Product"),
                                                   orString(scanData.category, "Uncategorized"),
                                                   analysisText(scanData), profile, Undefined),
                           !.timer = "armed", !.fetches = @ + 1]]
  /\ UNCHANGED << now, txt, cmp, store, scan >>

\* fetch rejects (no network): both catch blocks run, the timer stays armed
FetchRejects(c) ==
  /\ calls[c].pc = "fetch"
  /\ calls' = [calls EXCEPT ![c] = finish(c, catchFailure(calls[c].scanData, "network", now))]
  /\ UNCHANGED << now, txt, cmp, store, scan >>

\* the 30 s timer fires while fetch is pending: controller.abort() rejects
\* it with an AbortError (on a call that is past its fetch the timer is
\* cleared, or its abort changes nothing)
TimeoutFires(c) ==
  /\ calls[c].pc = "fetch"
  /\ calls[c].timer = "armed"
  /\ calls' = [calls EXCEPT ![c] =
                 [finish(c, catchFailure(calls[c].scanData, "timeout", now)) EXCEPT !.timer = "fired"]]
  /\ UNCHANGED << now, txt, cmp, store, scan >>

\* fetch resolves with the response headers: clearTimeout, then the body
\* is awaited
FetchResolves(c, ok) ==
  /\ calls[c].pc = "fetch"
  /\ calls' = [calls EXCEPT ![c] =
                 [@ EXCEPT !.pc = IF ok THEN "body" ELSE "errorBody", !.timer = "cleared"]]
  /\ UNCHANGED << now, txt, cmp, store, scan >>

\* response.text() of a non-2xx response settles: Worker API error
ErrorBodyRead(c) ==
  /\ calls[c].pc = "errorBody"
  /\ calls' = [calls EXCEPT ![c] = finish(c, catchFailure(calls[c].scanData, "status", now))]
  /\ UNCHANGED << now, txt, cmp, store, scan >>

\* response.text() rejects (the connection drops while the body is read)
BodyRejects(c) ==
  /\ calls[c].pc = "body"
  /\ calls' = [calls EXCEPT ![c] = finish(c, catchFailure(calls[c].scanData, "network", now))]
  /\ UNCHANGED << now, txt, cmp, store, scan >>

\* response.text() resolves: the body is parsed, repaired, completed and
\* mapped to the Product, or the fallback is taken
BodyRead(c, responseText) ==
  LET settle(r) ==
        [finish(c, finishWithAnalysis(calls[c].scanData, calls[c].rawIngredients, r, now))
           EXCEPT !.responseText = responseText, !.parses = r.parses]
  IN  /\ calls[c].pc = "body"
      /\ calls' = [calls EXCEPT ![c] = settle(analyzeBody(calls[c].scanData, responseText))]
      /\ UNCHANGED << now, txt, cmp, store, scan >>

\* a millisecond passes
Tick ==
  /\ now < MaxClock
  /\ now' = now + 1
  /\ UNCHANGED << calls, txt, cmp, store, scan >>

\* ------------------------------------------------------------------------
\* The text functions applied to an input text, one after the other
\* ------------------------------------------------------------------------

Classify ==
  /\ txt.stage = "input"
  /\ txt' = [txt EXCEPT !.stage = "classified", !.table = isNutritionTable(txt.text)]
  /\ UNCHANGED << calls, now, cmp, store, scan >>

Extract ==
  /\ txt.stage = "classified"
  /\ txt' = [txt EXCEPT !.stage = "extracted", !.cleaned = extractIngredientsFromText(txt.text)]
  /\ UNCHANGED << calls, now, cmp, store, scan >>

\* the extractor run on its own output
ReExtract ==
  /\ txt.stage = "extracted"
  /\ txt' = [txt EXCEPT !.stage = "reextracted", !.again = extractIngredientsFromText(txt.cleaned)]
  /\ UNCHANGED << calls, now, cmp, store, scan >>

Parse ==
  /\ txt.stage = "reextracted"
  /\ txt' = [txt EXCEPT !.stage = "parsed", !.tokens = parseIngredients(txt.text)]
  /\ UNCHANGED << calls, now, cmp, store, scan >>

ExtractNutrition ==
  /\ txt.stage = "parsed"
  /\ txt' = [txt EXCEPT !.stage = "measured", !.nutrition = extractNutritionInfo(txt.text)]
  /\ UNCHANGED << calls, now, cmp, store, scan >>

\* ------------------------------------------------------------------------
\* compareProducts applied to a list of products
\* ------------------------------------------------------------------------

Compare ==
  /\ cmp.result = None
  /\ cmp' = [cmp EXCEPT !.result = Some(compareProducts(cmp.products)),
                         !.products = productsAfterCompare(cmp.products)]
  /\ UNCHANGED << calls, now, txt, store, scan >>

\* a second call with the same array
CompareAgain ==
  /\ cmp.result # None
  /\ cmp.again = None
  /\ cmp' = [cmp EXCEPT !.again = Some(compareProducts(cmp.products)),
                         !.products = productsAfterCompare(cmp.products)]
  /\ UNCHANGED << calls, now, txt, store, scan >>

\* ------------------------------------------------------------------------
\* UserContext: the comparison list. store.comparisonList is the state with
\* the queued updaters applied; store.rendered is the comparisonList of the
\* last render, the one that the functions of that render read
\* ------------------------------------------------------------------------

AddToComparison(product) ==
  /\ store.calls < MaxBatch
  /\ store' = [store EXCEPT
       !.calls = @ + 1,
       !.comparisonList =
          IF /\ Len(store.rendered) < ComparisonLimit
             /\ ~\E k \in 1..Len(store.rendered) : store.rendered[k].id = product.id
          THEN Append(@, product)
          ELSE @]
  /\ UNCHANGED << calls, now, txt, cmp, scan >>

RemoveFromComparison(productId) ==
  /\ store.calls < MaxBatch
  /\ store' = [store EXCEPT
       !.calls = @ + 1,
       !.comparisonList = SelectSeq(@, LAMBDA q : q.id # productId)]
  /\ UNCHANGED << calls, now, txt, cmp, scan >>

ClearComparison ==
  /\ store.calls < MaxBatch
  /\ store' = [store EXCEPT !.calls = @ + 1, !.comparisonList = << >>]
  /\ UNCHANGED << calls, now, txt, cmp, scan >>

\* [product, ...scannedProducts.slice(0, 99)] without the slice
withAddedUncapped(scannedProducts, product) == << product >> \o scannedProducts

\* [product, ...scannedProducts.slice(0, 99)]
withAdded(scannedProducts, product) ==
  << product >> \o SubSeq(scannedProducts, 1, Min({KeptOnAdd, Len(scannedProducts)}))

\* addScannedProduct: the new list is made from the scannedProducts of the
\* render and set as the state
AddScannedProduct(product) ==
  /\ store.calls < MaxBatch
  /\ store.adds < MaxAdds
  /\ store' = [store EXCEPT
       !.calls = @ + 1,
       !.adds = @ + 1,
       !.added = @ \cup {product.id},
       !.scannedProducts = withAdded(store.renderedProducts, product)]
  /\ UNCHANGED << calls, now, txt, cmp, scan >>

RemoveScannedProduct(productId) ==
  /\ store.calls < MaxBatch
  /\ store' = [store EXCEPT
       !.calls = @ + 1,
       !.removed = TRUE,
       !.scannedProducts = SelectSeq(store.renderedProducts, LAMBDA q : q.id # productId)]
  /\ UNCHANGED << calls, now, txt, cmp, scan >>

\* the provider renders again with the new state
Render ==
  /\ store.calls > 0
  /\ store' = [store EXCEPT !.calls = 0, !.rendered = store.comparisonList,
                             !.renderedProducts = store.scannedProducts]
  /\ UNCHANGED << calls, now, txt, cmp, scan >>

\* ------------------------------------------------------------------------
\* ScanScreen: the handlers of the component, each up to its next await
\* ------------------------------------------------------------------------

Idle == scan.pending = "none" /\ scan.alert = "none"

\* the manual input button of the capture step
OpenManualInput ==
  /\ Idle /\ scan.scanStep = "capture" /\ ~scan.showManualInput
  /\ scan' = [scan EXCEPT !.showManualInput = TRUE]
  /\ UNCHANGED << calls, now, txt, cmp, store >>

\* onChangeText of the text field of the modal
TypeManual(text) ==
  /\ scan.alert = "none" /\ scan.showManualInput
  /\ scan' = [scan EXCEPT !.manualIngredients = text, !.fresh = FALSE]
  /\ UNCHANGED << calls, now, txt, cmp, store >>

\* the close button of the modal
CloseManualInput ==
  /\ scan.alert = "none" /\ scan.showManualInput
  /\ scan' = [scan EXCEPT !.showManualInput = FALSE]
  /\ UNCHANGED << calls, now, txt, cmp, store >>

\* the Continue button of the modal, disabled while the text is blank
ConfirmManual ==
  /\ scan.alert = "none" /\ scan.showManualInput
  /\ trim(scan.manualIngredients) # ""
  /\ scan' = [scan EXCEPT !.showManualInput = FALSE, !.extractedText = scan.manualIngredients,
                           !.scanStep = "category", !.fresh = FALSE]
  /\ UNCHANGED << calls, now, txt, cmp, store >>

\* takePicture and pickImage up to the await in processImage
TakePicture ==
  /\ Idle /\ scan.scanStep = "capture" /\ ~scan.showManualInput /\ ~scan.isProcessing
  /\ scan' = [scan EXCEPT !.isProcessing = TRUE, !.scanStep = "processing", !.pending = "image"]
  /\ UNCHANGED << calls, now, txt, cmp, store >>

\* analyzeProductImage resolves: processImage and the finally block
ImageProcessed(text) ==
  /\ scan.pending = "image"
  /\ scan' = [scan EXCEPT !.pending = "none", !.isProcessing = FALSE, !.extractedText = text,
                           !.scanStep = "category", !.fresh = TRUE]
  /\ UNCHANGED << calls, now, txt, cmp, store >>

\* analyzeProductImage rejects: the catch block of processImage
ImageFails ==
  /\ scan.pending = "image"
  /\ scan' = [scan EXCEPT !.pending = "none", !.isProcessing = FALSE, !.scanStep = "capture",
                           !.alert = "imageError"]
  /\ UNCHANGED << calls, now, txt, cmp, store >>

\* the button Enter Manually of the dialog of processImage
EnterManually ==
  /\ scan.alert = "imageError"
  /\ scan' = [scan EXCEPT !.alert = "none", !.showManualInput = TRUE]
  /\ UNCHANGED << calls, now, txt, cmp, store >>

\* handleBarcodeScan up to the await of lookupBarcode
BarcodeScanned(data) ==
  /\ Idle /\ scan.scanStep = "capture"
  /\ scan.scannedBarcode = None /\ ~scan.isProcessing
  /\ scan' = [scan EXCEPT !.scannedBarcode = Some(data), !.isProcessing = TRUE,
                           !.scanStep = "processing", !.pending = "lookup", !.lookup = data]
  /\ UNCHANGED << calls, now, txt, cmp, store >>

\* lookupBarcode found the product with its ingredients: the first branch
\* and the finally block
LookupFound(ingredients) ==
  /\ scan.pending = "lookup"
  /\ scan' = [scan EXCEPT !.pending = "none", !.extractedText = ingredients, !.scanStep = "category",
                           !.isProcessing = FALSE, !.scannedBarcode = None,
                           !.found = Some(scan.lookup), !.fresh = TRUE]
  /\ UNCHANGED << calls, now, txt, cmp, store >>

\* the product has no ingredients, is not found, or the lookup fails: a
\* dialog, and the finally block
LookupMisses ==
  /\ scan.pending = "lookup"
  /\ scan' = [scan EXCEPT !.pending = "none", !.isProcessing = FALSE, !.scannedBarcode = None,
                           !.alert = "lookup"]
  /\ UNCHANGED << calls, now, txt, cmp, store >>

\* the buttons Take Photo and Enter Manually of the dialog of the lookup
AnswerLookup(manually) ==
  /\ scan.alert = "lookup"
  /\ scan' = [scan EXCEPT !.alert = "none", !.scanStep = "capture", !.showManualInput = manually]
  /\ UNCHANGED << calls, now, txt, cmp, store >>

ConfirmCategory ==
  /\ Idle /\ scan.scanStep = "category" /\ ~scan.showManualInput
  /\ scan' = [scan EXCEPT !.scanStep = "review"]
  /\ UNCHANGED << calls, now, txt, cmp, store >>

\* the Back button of the review step
BackToCategory ==
  /\ Idle /\ scan.scanStep = "review" /\ ~scan.showManualInput
  /\ scan' = [scan EXCEPT !.scanStep = "category"]
  /\ UNCHANGED << calls, now, txt, cmp, store >>

\* onChangeText of the ingredients field of the review step
EditReview(text) ==
  /\ Idle /\ scan.scanStep = "review" /\ ~scan.showManualInput
  /\ scan' = [scan EXCEPT !.manualIngredients = text, !.fresh = FALSE]
  /\ UNCHANGED << calls, now, txt, cmp, store >>

\* createProduct: the arguments of createProductFromScan, or the manual
\* input when there is no text
CreateProduct ==
  LET analyze(ingredientText) ==
        IF trim(ingredientText) = ""
        THEN [scan EXCEPT !.showManualInput = TRUE]
        ELSE [scan EXCEPT !.alert = "analyzed",
                          !.analyzed = Some([ ingredientText |-> ingredientText,
                                              barcode |-> scan.scannedBarcode,
                                              extractedText |-> scan.extractedText,
                                              found |-> scan.found,
                                              fresh |-> scan.fresh ])]
  IN  /\ Idle /\ scan.scanStep = "review" /\ ~scan.showManualInput
      /\ scan' = analyze(IF scan.manualIngredients # "" THEN scan.manualIngredients
                         ELSE scan.extractedText)
      /\ UNCHANGED << calls, now, txt, cmp, store >>

\* resetScan, from the dialogs of processImage and of createProduct
ResetScan ==
  /\ scan.alert \in {"imageError", "analyzed"}
  /\ scan' = [IdleScan EXCEPT !.analyzed = scan.analyzed]
  /\ UNCHANGED << calls, now, txt, cmp, store >>

\* ------------------------------------------------------------------------
\* Specifications
\* ------------------------------------------------------------------------

Init ==
  /\ calls = [c \in Calls |-> IdleCall]
  /\ now = 0
  /\ txt = IdleText
  /\ cmp = IdleComparison
  /\ store = IdleStore
  /\ scan = IdleScan

\* one createProductFromScan call from start to return
Next ==
  \/ \E scanData \in Scans : \E profile \in Profiles : StartScan(1, scanData, profile)
  \/ FetchRejects(1)
  \/ TimeoutFires(1)
  \/ \E ok \in BOOLEAN : FetchResolves(1, ok)
  \/ ErrorBodyRead(1)
  \/ BodyRejects(1)
  \/ \E responseText \in ResponseBodies : BodyRead(1, responseText)
  \/ Tick

Spec == Init /\ [][Next]_vars

\* two createProductFromScan calls, one after the other or interleaved at
\* their awaits
NextConcurrent ==
  \/ \E c \in Calls : \E scanData \in ConcurrentScans : \E profile \in ConcurrentProfiles :
       StartScan(c, scanData, profile)
  \/ \E c \in Calls : FetchRejects(c)
  \/ \E c \in Calls : TimeoutFires(c)
  \/ \E c \in Calls : \E ok \in BOOLEAN : FetchResolves(c, ok)
  \/ \E c \in Calls : ErrorBodyRead(c)
  \/ \E c \in Calls : BodyRejects(c)
  \/ \E c \in Calls : \E responseText \in ConcurrentBodies : BodyRead(c, responseText)
  \/ Tick

SpecConcurrent == Init /\ [][NextConcurrent]_vars

\* the text functions on every input text
InitText ==
  /\ calls = [c \in Calls |-> IdleCall]
  /\ now = 0
  /\ txt \in {[IdleText EXCEPT !.text = t] : t \in TextInputs}
  /\ cmp = IdleComparison
  /\ store = IdleStore
  /\ scan = IdleScan

NextText == Classify \/ Extract \/ ReExtract \/ Parse \/ ExtractNutrition

SpecText == InitText /\ [][NextText]_vars

\* compareProducts on every list of products
InitComparison ==
  /\ calls = [c \in Calls |-> IdleCall]
  /\ now = 0
  /\ txt = IdleText
  /\ cmp \in {[IdleComparison EXCEPT !.given = l, !.products = l] : l \in ProductLists(MaxProducts)}
  /\ store = IdleStore
  /\ scan = IdleScan

NextComparison == Compare \/ CompareAgain

SpecComparison == InitComparison /\ [][NextComparison]_vars

\* the comparison list of the provider
NextStore ==
  \/ \E id \in ProductIds : AddToComparison([id |-> id])
  \/ \E id \in ProductIds : RemoveFromComparison(id)
  \/ ClearComparison
  \/ Render

SpecStore == Init /\ [][NextStore]_vars

\* the history and the comparison list of the provider; the screens offer
\* for comparison the products of the history they were rendered with
InitHistory ==
  /\ calls = [c \in Calls |-> IdleCall]
  /\ now = 0
  /\ txt = IdleText
  /\ cmp = IdleComparison
  /\ store \in {[IdleStore EXCEPT !.scannedProducts = h, !.renderedProducts = h] : h \in Histories}
  /\ scan = IdleScan

NextHistory ==
  \/ \E id \in HistoryIds : AddScannedProduct([id |-> id])
  \/ \E id \in HistoryIds : RemoveScannedProduct(id)
  \/ \E id \in HistoryIds :
       /\ \E k \in 1..Len(store.renderedProducts) : store.renderedProducts[k].id = id
       /\ AddToComparison([id |-> id])
  \/ \E id \in HistoryIds : RemoveFromComparison(id)
  \/ ClearComparison
  \/ Render

SpecHistory == InitHistory /\ [][NextHistory]_vars

\* the ScanScreen component
NextScan ==
  \/ OpenManualInput
  \/ \E text \in TypedTexts : TypeManual(text)
  \/ CloseManualInput
  \/ ConfirmManual
  \/ TakePicture
  \/ \E text \in OcrTexts : ImageProcessed(text)
  \/ ImageFails
  \/ EnterManually
  \/ \E data \in Barcodes : BarcodeScanned(data)
  \/ \E ingredients \in LookupTexts : LookupFound(ingredients)
  \/ LookupMisses
  \/ \E manually \in BOOLEAN : AnswerLookup(manually)
  \/ ConfirmCategory
  \/ BackToCategory
  \/ \E text \in TypedTexts : EditReview(text)
  \/ CreateProduct
  \/ ResetScan

SpecScan == Init /\ [][NextScan]_vars

\* ------------------------------------------------------------------------
\* Properties of createProductFromScan
\* ------------------------------------------------------------------------

Returned(c) == calls[c].status = "returned"

ProductOf(c) == calls[c].product[1]

Grades == {JStr(g) : g \in {"A", "B", "C", "D", "F"}}

isInteger(v) == v.t = "num" /\ isZeroFraction(v.frac)

inScoreRange(v) == isInteger(v) /\ v.n \in 0..100

\* C1: every call that has ended has returned a Product whose overallScore
\* is an integer in 0..100 and whose letterGrade is one of A, B, C, D, F.
ScoreAndGradeInRange ==
  \A c \in Calls :
    calls[c].pc = "done" =>
      /\ Returned(c)
      /\ inScoreRange(ProductOf(c).overallScore)
      /\ ProductOf(c).letterGrade \in Grades

\* the ways the oracle call fails
OracleFailures == {"network", "timeout", "status", "empty", "json"}

isFallbackIngredient(ing) ==
  /\ ing.healthRating = JStr("caution")
  /\ ing.category = JStr("Unknown")
  /\ ing.isVegan = JBool(TRUE)
  /\ ing.isNatural = JBool(FALSE)
  /\ ing.benefits = JArr(<< >>)
  /\ ing.name.t = "str" /\ ing.name.s # ""
  /\ CharAt(ing.name.s, 1) \notin LowerChars

\* C2: a call whose oracle call failed (network, timeout, status, empty
\* body, JSON unparseable after the repair) has returned the fallback
\* Product: score 50, grade C, one warning, one advice, at most 50
\* ingredients, each of them rated caution, of category Unknown, vegan, not
\* natural, without benefits and with a capitalized name.
FailureGivesFallback ==
  \A c \in Calls :
    calls[c].failure \in OracleFailures =>
      /\ Returned(c)
      /\ calls[c].path = "fallback"
      /\ ProductOf(c).overallScore = JNum(50, "")
      /\ ProductOf(c).letterGrade = JStr("C")
      /\ Len(ProductOf(c).personalizedWarnings.items) = 1
      /\ Len(ProductOf(c).personalizedAdvice.items) = 1
      /\ Len(ProductOf(c).ingredients) <= MaxIngredients
      /\ \A k \in 1..Len(ProductOf(c).ingredients) : isFallbackIngredient(ProductOf(c).ingredients[k])

\* a body that cannot be parsed even after the repair gave the fallback
\* Product with the full 50 ingredients
FallbackWithFullList ==
  /\ calls[1].failure = "json"
  /\ Returned(1)
  /\ Len(ProductOf(1).ingredients) = MaxIngredients

\* C3: a call sends at most one request and runs JSON.parse at most twice,
\* the second time only after the first one failed; when the body is still
\* unparseable after the repair, both parses ran and the fallback is taken.
OneFetchTwoParses ==
  \A c \in Calls :
    /\ calls[c].fetches <= 1
    /\ calls[c].parses <= 2
    /\ (calls[c].parses = 2 => ~JSONparse(calls[c].responseText).ok)
    /\ (calls[c].failure = "json" => calls[c].parses = 2 /\ calls[c].path = "fallback")

\* the two outcomes of a second parse: it fails, and it succeeds
SecondParseFailed == calls[1].failure = "json" /\ calls[1].parses = 2

SecondParseSucceeded == calls[1].path = "oracle" /\ calls[1].parses = 2

\* C4: while a call is suspended on the oracle (the request is sent and the
\* response body is not yet read), its timeout is armed.
SuspensionBoundedByTimeout ==
  \A c \in Calls :
    calls[c].pc \in {"fetch", "body", "errorBody"} => calls[c].timer = "armed"

IngredientFields ==
  {"name", "category", "description", "healthRating", "concerns", "benefits", "isVegan", "isNatural"}

\* C5: the Product built from a parsed oracle response has no ingredient
\* with a field that is undefined or null.
OracleIngredientsPopulated ==
  \A c \in Calls :
    calls[c].path = "oracle" =>
      \A k \in 1..Len(ProductOf(c).ingredients) :
        \A f \in IngredientFields : ProductOf(c).ingredients[k][f].t \notin {"undefined", "null"}

\* the member key of the response body the call c has parsed
Supplied(c, key) == get(parseResponse(calls[c].responseText).analysis, key)

\* C6: when the response supplies an integer overall_rating in 0..100 and a
\* letter_grade among A..F, the Product carries exactly these values.
SuppliedRatingKept ==
  \A c \in Calls :
    /\ calls[c].path = "oracle"
    /\ inScoreRange(Supplied(c, "overall_rating"))
    /\ Supplied(c, "letter_grade") \in Grades
    => /\ ProductOf(c).overallScore = Supplied(c, "overall_rating")
       /\ ProductOf(c).letterGrade = Supplied(c, "letter_grade")

\* C7: two calls that have returned gave their Products different ids.
DistinctIds ==
  \A c1, c2 \in Calls :
    c1 # c2 /\ Returned(c1) /\ Returned(c2) => ProductOf(c1).id # ProductOf(c2).id

\* ------------------------------------------------------------------------
\* Properties of the text functions
\* ------------------------------------------------------------------------

\* the keywords of the vocabulary that occur in the lower-cased text
KeywordsIn(text) ==
  {k \in 1..Len(nutritionKeywords) : includes(toLowerCase(text), nutritionKeywords[k])}

\* C8: the vocabulary has 12 distinct keywords, and a text is classified as
\* a nutrition table exactly when at least 3 of them occur in the
\* lower-cased text; the empty text is no nutrition table.
ClassifiedByThreeKeywords ==
  /\ Cardinality({nutritionKeywords[k] : k \in 1..Len(nutritionKeywords)}) = 12
  /\ txt.stage # "input" =>
       /\ txt.table <=> Cardinality(KeywordsIn(txt.text)) >= 3
       /\ txt.text = "" => ~txt.table

\* a text with exactly three keywords has been classified as a table, and
\* a text with two keywords as none
TableWithThreeKeywords ==
  txt.stage = "classified" /\ txt.table /\ Cardinality(KeywordsIn(txt.text)) = 3

NoTableWithTwoKeywords ==
  txt.stage = "classified" /\ ~txt.table /\ Cardinality(KeywordsIn(txt.text)) = 2

\* C9: extracting from the extractor's own output changes nothing.
ExtractIdempotent ==
  txt.stage \in {"reextracted", "parsed"} => txt.again = txt.cleaned

\* the token is a number or percentage: a digit followed by digits, white
\* space and percent signs only
isNumberOrPercentage(token) ==
  /\ token # "" /\ CharAt(token, 1) \in DigitChars
  /\ \A i \in 1..Len(token) : CharAt(token, i) \in DigitChars \cup SpaceChars \cup {"%"}

\* what C10 asks of a token
isAcceptableToken(token) ==
  /\ Len(token) >= 2 /\ Len(token) <= 100
  /\ CharAt(token, 1) \notin SpaceChars /\ CharAt(token, Len(token)) \notin SpaceChars
  /\ ~isNumberOrPercentage(token)
  /\ \A word \in {"serving", "calorie", "daily value"} : ~includes(toLowerCase(token), word)

\* the pieces of the cleaned text between commas and semicolons, trimmed
PiecesOf(cleaned) == trimAll(split(cleaned, {",", ";"}))

\* the positions, in ascending order, of the pieces that are acceptable
AcceptablePieces(pieces) ==
  ascending({i \in 1..Len(pieces) : isAcceptableToken(pieces[i])}, 1, Len(pieces))

\* C10: parseIngredients returns at most 50 tokens; each is trimmed, 2 to
\* 100 characters long, no number or percentage, and free of "serving",
\* "calorie" and "daily value"; they are the first acceptable pieces of the
\* cleaned text, in its order.
TokensWellFormed ==
  txt.stage = "parsed" =>
    /\ Len(txt.tokens) <= 50
    /\ \A k \in 1..Len(txt.tokens) : isAcceptableToken(txt.tokens[k])
    /\ txt.cleaned # "" =>
         /\ Len(txt.tokens) <= Len(AcceptablePieces(PiecesOf(txt.cleaned)))
         /\ Len(AcceptablePieces(PiecesOf(txt.cleaned))) <= 50
              => Len(txt.tokens) = Len(AcceptablePieces(PiecesOf(txt.cleaned)))
         /\ \A k \in 1..Len(txt.tokens) :
              txt.tokens[k] = PiecesOf(txt.cleaned)[AcceptablePieces(PiecesOf(txt.cleaned))[k]]

\* a text with more than 50 acceptable pieces has been cut to 50 tokens
TokensCapped ==
  /\ txt.stage = "parsed"
  /\ Len(txt.tokens) = 50
  /\ Len(AcceptablePieces(PiecesOf(txt.cleaned))) > 50

\* a text has lost a piece that is no acceptable token
TokenDropped ==
  /\ txt.stage = "parsed"
  /\ Len(txt.tokens) >= 1
  /\ Len(txt.tokens) < Len(PiecesOf(txt.cleaned))

\* C11: parseIngredients on the label line gives the four names in lower
\* case, in order, without the marker and without the closing period.
LabelTokensNormalized ==
  txt.stage = "parsed" /\ txt.text = LabelText =>
    txt.tokens = << "water", "sugar", "salt", "natural flavor" >>

\* ------------------------------------------------------------------------
\* Properties of compareProducts
\* ------------------------------------------------------------------------

Compared == cmp.result # None

Comparison == cmp.result[1]

\* the positions of the input products whose ingredient list holds the name
Holders(ingredient) ==
  {n \in 1..Len(cmp.products) :
     \E k \in 1..Len(cmp.products[n].ingredients) : cmp.products[n].ingredients[k].name = ingredient}

IngredientNames ==
  UNION {{cmp.products[n].ingredients[k].name : k \in 1..Len(cmp.products[n].ingredients)} :
           n \in 1..Len(cmp.products)}

Range(f) == {f[k] : k \in DOMAIN f}

\* C12: every ingredient reported in differingIngredients is held by strictly
\* fewer input products than there are input products, also when several
\* input products have the same name
DifferingNotInAll ==
  (Compared /\ Len(cmp.products) > 0) =>
    \A k \in 1..Len(Comparison.differingIngredients) :
      Cardinality(Holders(Comparison.differingIngredients[k].ingredient)) < Len(cmp.products)

\* C13: every ingredient held by some but not all of the input products is
\* reported exactly once, and its presentIn lists, once each, the names of
\* the products that hold it
EveryDifferentiatorReported ==
  Compared =>
    \A ingredient \in IngredientNames :
      (Cardinality(Holders(ingredient)) < Len(cmp.products)) =>
        \E k \in 1..Len(Comparison.differingIngredients) :
          /\ Comparison.differingIngredients[k].ingredient = ingredient
          /\ \A j \in 1..Len(Comparison.differingIngredients) :
               Comparison.differingIngredients[j].ingredient = ingredient => j = k
          /\ Range(Comparison.differingIngredients[k].presentIn)
               = {cmp.products[n].name : n \in Holders(ingredient)}
          /\ Cardinality(Range(Comparison.differingIngredients[k].presentIn))
               = Len(Comparison.differingIngredients[k].presentIn)

\* the products A = {X, Y}, B = {X}, C = {X, Y, Z} compared: Y in A and C, Z in C
ExampleDifferentiators ==
  /\ Compared
  /\ cmp.products = << Catalogue[1], Catalogue[2], Catalogue[3] >>
  /\ Comparison.differingIngredients
       = << [ingredient |-> "Y", presentIn |-> << "A", "C" >>, rating |-> "warning"],
            [ingredient |-> "Z", presentIn |-> << "C" >>, rating |-> "danger"] >>

\* C14: rankedOrder lists the ids of the input products by descending
\* overallScore, products of equal score in their input order
RankedStableDescending ==
  Compared =>
    \E order \in [1..Len(cmp.products) -> 1..Len(cmp.products)] :
      /\ \A k, l \in 1..Len(cmp.products) : k < l =>
            \/ cmp.products[order[k]].overallScore > cmp.products[order[l]].overallScore
            \/ /\ cmp.products[order[k]].overallScore = cmp.products[order[l]].overallScore
               /\ order[k] < order[l]
      /\ Comparison.rankedOrder = [k \in 1..Len(cmp.products) |-> cmp.products[order[k]].id]

\* A (70), B (90), C (70) compared: B first, then A and C in their input order
TieKeepsInputOrder ==
  /\ Compared
  /\ cmp.products = << Catalogue[1], Catalogue[2], Catalogue[3] >>
  /\ Comparison.rankedOrder = << "2", "1", "3" >>

\* C15: the empty list gives no ranking, no differing ingredient and the
\* summary "No products to compare"; a single product gives its id alone and
\* no differing ingredient
EmptyAndSingleComparison ==
  Compared =>
    /\ Len(cmp.products) = 0 =>
         /\ Comparison.rankedOrder = << >>
         /\ Comparison.differingIngredients = << >>
         /\ Comparison.summary = "No products to compare"
    /\ Len(cmp.products) = 1 =>
         /\ Comparison.rankedOrder = << cmp.products[1].id >>
         /\ Comparison.differingIngredients = << >>

SingleProductCompared ==
  /\ Compared
  /\ Len(cmp.products) = 1
  /\ Len(cmp.products[1].ingredients) > 1
  /\ Comparison.differingIngredients = << >>
  /\ Comparison.summary = "E ranks highest with a score of 5. It has 0 warnings based on your profile."

\* ------------------------------------------------------------------------
\* Properties of extractNutritionInfo and of the marker search
\* ------------------------------------------------------------------------

\* C16: of the lines of the nutrition label, "Sodium 170mg 8%" is parsed into
\* name Sodium, amount 170mg and daily value 8%, and "Protein 3g" into name
\* Protein and amount 3g without a daily value
NutrientLinesCarryPercentage ==
  (txt.stage = "measured" /\ txt.text = NutritionLabelText) =>
    txt.nutrition.nutrients
      = << [name |-> "Sodium", amount |-> "170mg", dailyValue |-> Some("8%")],
           [name |-> "Protein", amount |-> "3g", dailyValue |-> None] >>

\* the occurrences << start, marker >> of the markers in the text, the start
\* counted from 1
MarkerOccurrences(text) ==
  LET occurrences(lower) ==
        UNION {{<< p, k >> : p \in Occurrences(lower, ingredientMarkers[k])} :
                 k \in 1..Len(ingredientMarkers)}
  IN  occurrences(toLowerCase(text))

\* what the extractor makes of the ingredient segment
CleanedSegment(segment) ==
  cleanResult(trim(join(SelectSeq(trimAll(split(trim(segment), {"\n"})), keepLine), " ")))

\* C20: when an ingredient-list text holds section markers, the result is
\* made of the segment that starts right after the marker occurrence of the
\* smallest start position
SegmentAfterEarliestMarker ==
  LET afterEarliest(occurrences) ==
        occurrences # {} =>
          \E o \in occurrences :
            /\ \A other \in occurrences : o[1] <= other[1]
            /\ txt.cleaned
                 = CleanedSegment(SubSeq(txt.text, o[1] + Len(ingredientMarkers[o[2]]), Len(txt.text)))
  IN  (/\ txt.stage \notin {"input", "classified"}
       /\ Len(trim(txt.text)) > 0
       /\ ~isNutritionTable(txt.text)) => afterEarliest(MarkerOccurrences(txt.text))

\* the marker listed later stands first in the text, the other right behind it
EarlierOfAdjacentMarkers ==
  /\ txt.stage = "extracted"
  /\ txt.text = AdjacentMarkersText
  /\ txt.cleaned = "ingredients: Oats, Honey"

\* ------------------------------------------------------------------------
\* Properties of the comparison list
\* ------------------------------------------------------------------------

\* C17: the comparison list holds at most 5 products and no two products of
\* the same id
ComparisonListBounded ==
  /\ Len(store.comparisonList) <= 5
  /\ \A k, l \in 1..Len(store.comparisonList) :
       store.comparisonList[k].id = store.comparisonList[l].id => k = l

\* ------------------------------------------------------------------------
\* Properties of the request and of the text kept in the product
\* ------------------------------------------------------------------------

\* C19: on the oracle path and on the fallback path alike, the product's
\* rawIngredientText is the text that was analyzed: the cleaned text, or the
\* raw text when cleaning left nothing
RawTextIsAnalyzedText ==
  \A c \in Calls : Returned(c) => ProductOf(c).rawIngredientText = analysisText(calls[c].scanData)

Sent(c) == calls[c].fetches > 0

\* C18: the request carries the product name, the category, the analysis
\* text and the profile, and no list of the profile that is empty
EmptyProfileFieldsOmitted ==
  \A c \in Calls : Sent(c) =>
    /\ get(calls[c].request, "productName") = JStr(orString(calls[c].scanData.name, "Unknown Product"))
    /\ get(calls[c].request, "productCategory") = JStr(orString(calls[c].scanData.category, "Uncategorized"))
    /\ get(calls[c].request, "rawIngredients") = JStr(calls[c].rawIngredients)
    /\ \A k \in 1..Len(ProfileLists) :
         get(get(calls[c].request, "userProfile"), ProfileLists[k]) # JArr(<< >>)

\* ------------------------------------------------------------------------
\* Properties of the heuristic patterns
\* ------------------------------------------------------------------------

\* the match positions (counted from 0) of the heuristic patterns that match
PatternStarts(text) ==
  {patternIndex(toLowerCase(text), k) : k \in 1..NumPatterns} \ {-1}

\* C21: when an ingredient-list text holds no marker, the result is made of
\* the segment that starts at the smallest match position of the three
\* patterns, and of the whole text when no pattern matches
SegmentAtEarliestPattern ==
  LET fromEarliest(starts) ==
        txt.cleaned = CleanedSegment(IF starts = {} THEN txt.text ELSE substring(txt.text, Min(starts)))
  IN  (/\ txt.stage \notin {"input", "classified"}
       /\ Len(trim(txt.text)) > 0
       /\ ~isNutritionTable(txt.text)
       /\ MarkerOccurrences(txt.text) = {}) => fromEarliest(PatternStarts(txt.text))

\* ------------------------------------------------------------------------
\* Properties of the analysis text
\* ------------------------------------------------------------------------

\* the text that the procedure prepares from the raw text
PreparedText(raw) ==
  LET orRaw(cleaned) == IF cleaned = "" THEN raw ELSE cleaned
  IN  IF Len(trim(raw)) > 0 /\ isNutritionTable(raw)
      THEN formatNutritionForAnalysis(extractNutritionInfo(raw))
      ELSE orRaw(IF Len(trim(raw)) = 0 THEN "" ELSE extractIngredientList(raw))

\* C22: the text sent to the oracle is the formatted nutrition block for a
\* nutrition table, otherwise the cleaned ingredient text, and the raw text
\* when cleaning left nothing; it is empty only when the raw text is empty
AnalysisTextPrepared ==
  \A c \in Calls : Sent(c) =>
    /\ get(calls[c].request, "rawIngredients") = JStr(PreparedText(calls[c].scanData.ingredientText))
    /\ calls[c].scanData.ingredientText # "" => get(calls[c].request, "rawIngredients") # JStr("")

\* a raw text of white space only is sent as it is
BlankTextSentRaw ==
  \E c \in Calls :
    /\ Sent(c)
    /\ calls[c].scanData.ingredientText = " \n "
    /\ get(calls[c].request, "rawIngredients") = JStr(" \n ")

\* ------------------------------------------------------------------------
\* Properties of the JSON repair
\* ------------------------------------------------------------------------

\* C23: a body cut off after a complete value inside nested objects and
\* arrays is closed in the reverse order of the openings, and parses on the
\* second try
RepairClosesInnermostFirst ==
  \A c \in Calls :
    (Returned(c) /\ calls[c].responseText = TruncatedNestedBody) =>
      /\ repairJson(calls[c].responseText) = TruncatedNestedBody \o "}]}"
      /\ calls[c].parses = 2
      /\ calls[c].path = "oracle"

\* ------------------------------------------------------------------------
\* Purity of compareProducts
\* ------------------------------------------------------------------------

TakenFrom(name, text) ==
  \E i \in 1..(Len(text) - Len(name) + 1) : capitalize(SubSeq(text, i, i + Len(name) - 1)) = name

\* C25: every ingredient name of a fallback product is a piece of the raw
\* ingredient text of the scan, also when that text is a nutrition table
FallbackNamesFromText ==
  \A c \in Calls :
    (Returned(c) /\ calls[c].path = "fallback") =>
      \A k \in 1..Len(ProductOf(c).ingredients) :
        TakenFrom(ProductOf(c).ingredients[k].name.s, calls[c].scanData.ingredientText)

\* ------------------------------------------------------------------------
\* Properties of the history of scanned products
\* ------------------------------------------------------------------------

ScannedIds == {store.scannedProducts[k].id : k \in 1..Len(store.scannedProducts)}

\* C26: as long as no product was removed and the cap was not reached, every
\* product given to addScannedProduct is in scannedProducts, also when two
\* calls came from the same render
NoScannedProductLost ==
  (~store.removed /\ Len(store.scannedProducts) <= KeptOnAdd) => store.added \subseteq ScannedIds

\* C29: every product of comparisonList is in scannedProducts
ComparedAreScanned ==
  \A k \in 1..Len(store.comparisonList) : store.comparisonList[k].id \in ScannedIds

Analyzed == scan.analyzed # None

\* C27: when the barcode lookup found the product with its ingredients, the
\* barcode given to createProductFromScan is the scanned barcode
ScannedBarcodeRecorded ==
  (Analyzed /\ scan.analyzed[1].found # None) => scan.analyzed[1].barcode = scan.analyzed[1].found

\* C28: when a photo or a barcode lookup has set extractedText and nothing
\* was typed since, the text given to createProductFromScan is extractedText
LatestInputAnalyzed ==
  (Analyzed /\ scan.analyzed[1].fresh) => scan.analyzed[1].ingredientText = scan.analyzed[1].extractedText

====
